---- MODULE Spec2Model ----
(***************************************************************************)
(* Arduboy2: the sprite blit engine (Sprites::draw / Sprites::drawBitmap), *)
(* the RLE decoder (Arduboy2Base::drawCompressed) and the cabi encoder     *)
(* (compress_rle), modelled over the packed 128x64 frame buffer sBuffer.   *)
(*                                                                         *)
(* The target is the AVR: int is 16 bits wide, so uint16_t arithmetic      *)
(* wraps modulo 2^16 and a frame buffer index is a 16-bit value.           *)
(***************************************************************************)
EXTENDS Integers, Sequences, FiniteSets, TLC

\* ------------------------------------------------------------------------
\* Program constants
\* ------------------------------------------------------------------------
WIDTH == 128
HEIGHT == 64
BLACK == 0
WHITE == 1
INVERT == 2
SPRITE_MASKED == 1
SPRITE_UNMASKED == 2
SPRITE_OVERWRITE == 2
SPRITE_PLUS_MASK == 3
SPRITE_IS_MASK == 250
SPRITE_IS_MASK_ERASE == 251
SPRITE_AUTO_MODE == 255

\* size of sBuffer in bytes: uint8_t sBuffer[(HEIGHT*WIDTH)/8]
BufSize == (HEIGHT * WIDTH) \div 8
BufIdx == 0 .. (BufSize - 1)
\* A frame buffer is held as the sequence of its bytes: byte i of the array is
\* element i + 1 of the sequence.
AllBytes(v) == [k \in 1 .. BufSize |-> v]
ByteAt(buf, i) == buf[i + 1]

\* ------------------------------------------------------------------------
\* Fixed-width integer helpers
\* ------------------------------------------------------------------------
Pow2(n) == 2 ^ n
U8(v) == v % 256
U16(v) == v % 65536
\* two's complement reading of a 16-bit pattern (int16_t)
S16(v) == IF U16(v) >= 32768 THEN U16(v) - 65536 ELSE U16(v)
\* two's complement reading of an 8-bit pattern (int8_t)
S8(v) == IF U8(v) >= 128 THEN U8(v) - 256 ELSE U8(v)
Abs(v) == IF v < 0 THEN -v ELSE v
\* C integer division truncates towards zero; % takes the sign of the dividend
CDiv(a, b) == IF a >= 0 THEN a \div b ELSE -((-a) \div b)
CMod(a, b) == a - b * CDiv(a, b)
LoByte(v) == U16(v) % 256
HiByte(v) == U16(v) \div 256

BitOf(v, i) == (v \div Pow2(i)) % 2
\* bitwise and of two bytes, bit by bit
AndBits(a, b) ==
  BitOf(a,0)*BitOf(b,0) + 2*BitOf(a,1)*BitOf(b,1) + 4*BitOf(a,2)*BitOf(b,2)
  + 8*BitOf(a,3)*BitOf(b,3) + 16*BitOf(a,4)*BitOf(b,4) + 32*BitOf(a,5)*BitOf(b,5)
  + 64*BitOf(a,6)*BitOf(b,6) + 128*BitOf(a,7)*BitOf(b,7)
\* the same as a table, computed once
AndTable == [a \in 0 .. 255 |-> [b \in 0 .. 255 |-> AndBits(a, b)]]
\* bitwise operators on bytes
And8(a, b) == AndTable[a][b]
Not8(a) == 255 - U8(a)
Or8(a, b) == a + b - And8(a, b)
Xor8(a, b) == a + b - 2 * And8(a, b)
Not16(a) == 65535 - U16(a)

\* ------------------------------------------------------------------------
\* Program memory: the image and mask arrays a sketch declares in PROGMEM.
\* An image array is [width, height, frame data ...]; a mask array has no
\* header.  A pointer into program memory is [res |-> array, off |-> index];
\* the null pointer is NULL.
\* ------------------------------------------------------------------------
NULL == [res |-> "NULL", off |-> 0]

\* pseudo-random array contents
GenByte(i, seed) == (i * i * 11 + i * seed + 7 * seed + (i \div 3)) % 256
Image(w, h, n, seed) ==
  [i \in 0 .. (n + 1) |-> IF i = 0 THEN w ELSE IF i = 1 THEN h ELSE GenByte(i - 2, seed)]

\* widest image of the model: wider than the screen by more than 128 columns
WideW == 130
\* length of the mask arrays: two frames of the largest image
MaskLen == 2 * WideW * 2

ShipArray == Image(3, 16, 24, 37)
DotArray == Image(1, 8, 4, 201)
TallArray == Image(2, 72, 72, 90)
WideArray == Image(WideW, 16, 4 * WideW * 2, 53)
\* one column of 16 lit pixels, two frames
BarArray == [i \in 0 .. 5 |-> IF i = 0 THEN 1 ELSE IF i = 1 THEN 16 ELSE 255]
\* An image array read as interleaved image/mask pairs, taken apart: the
\* image array of its even data bytes and the mask array of its odd ones.
EvenBytes(arr) ==
  [i \in 0 .. (((Cardinality(DOMAIN arr) - 2) \div 2) + 1) |->
     IF i < 2 THEN arr[i] ELSE arr[2 + 2 * (i - 2)]]
OddBytes(arr) ==
  [i \in 0 .. (((Cardinality(DOMAIN arr) - 2) \div 2) - 1) |-> arr[2 + 2 * i + 1]]

Rom ==
  [ ship  |-> ShipArray,
    dot   |-> DotArray,
    tall  |-> TallArray,
    wide  |-> WideArray,
    bar   |-> BarArray,
    mZero |-> [i \in 0 .. (MaskLen - 1) |-> 0],
    mOnes |-> [i \in 0 .. (MaskLen - 1) |-> 255],
    mMix  |-> [i \in 0 .. (MaskLen - 1) |-> GenByte(i, 149)],
    shipI |-> EvenBytes(ShipArray), shipM |-> OddBytes(ShipArray),
    dotI  |-> EvenBytes(DotArray),  dotM  |-> OddBytes(DotArray),
    tallI |-> EvenBytes(TallArray), tallM |-> OddBytes(TallArray),
    wideI |-> EvenBytes(WideArray), wideM |-> OddBytes(WideArray),
    barI  |-> EvenBytes(BarArray),  barM  |-> OddBytes(BarArray) ]
EvenName ==
  [ship |-> "shipI", dot |-> "dotI", tall |-> "tallI", wide |-> "wideI", bar |-> "barI",
   NULL |-> "NULL"]
OddName ==
  [ship |-> "shipM", dot |-> "dotM", tall |-> "tallM", wide |-> "wideM", bar |-> "barM",
   NULL |-> "NULL"]

Ptr(name) == [res |-> name, off |-> 0]
PtrAdd(p, n) == [p EXCEPT !.off = U16(p.off + n)]
\* pgm_read_byte: the byte of the array at the pointer; a read outside the
\* array finds whatever follows it in flash (here 0) and is visible in the
\* recorded read offsets
pgm_read_byte(p) ==
  IF p.off \in DOMAIN Rom[p.res] THEN Rom[p.res][p.off] ELSE 0

\* ------------------------------------------------------------------------
\* State
\* ------------------------------------------------------------------------
VARIABLES
  sBuffer,     \* Arduboy2Base::sBuffer, the packed frame buffer
  pre,         \* sBuffer as it was when the last call began
  x, y,        \* arguments of the sketch's sprite calls
  bitmap, frame, mask, mask_frame,
  last,        \* the draw mode of the last Sprites call, 0 before any
  calls,       \* the number of Sprites calls made
  written,     \* summary of the last call's stores to sBuffer
  brd,         \* summary of the last call's reads of the image array
  mrd,         \* summary of the last call's reads of the mask array
  op,          \* the last operation: "none" before any
  past,        \* the byte that follows an array in memory
  stream,      \* the array compress_rle printed, <<>> before it ran
  colorArg,    \* the color argument of the last drawCompressed call
  fetched,     \* the number of stream bytes the last drawCompressed call fetched
  span,        \* a span length, the bits putsplen wrote for it, and what a
               \* reader made of them
  probe,       \* the last getPixel call: its arguments, the sBuffer index it
               \* read and what it returned
  frameCount, eachFrameMillis, thisFrameStart, lastFrameDurationMs, justRendered,
               \* the frame management members of Arduboy2Base
  millis,      \* the millisecond clock of the core, 32 bits wide
  returned     \* what the last nextFrame call returned, "none" before any

vars ==
  <<sBuffer, pre, x, y, bitmap, frame, mask, mask_frame, last, calls, written, brd, mrd,
    op, past, stream, colorArg, fetched, span, probe,
    frameCount, eachFrameMillis, thisFrameStart, lastFrameDurationMs, justRendered,
    millis, returned>>
paceVars ==
  <<frameCount, eachFrameMillis, thisFrameStart, lastFrameDurationMs, justRendered,
    millis, returned>>

\* no getPixel call made yet
NoProbe == [x |-> 0, y |-> 0, index |-> 0, value |-> 0]
\* the frame management members as their definitions initialise them, before
\* any nextFrame call: frameCount = 0, eachFrameMillis = 16, justRendered =
\* false, and 0 for the two that have no initialiser
PaceStart ==
  /\ frameCount = 0
  /\ eachFrameMillis = 16
  /\ thisFrameStart = 0
  /\ lastFrameDurationMs = 0
  /\ justRendered = FALSE
  /\ millis = 0
  /\ returned = "none"
\* no span length written or read yet
NoSpan == [L |-> 0, put |-> 0, len |-> 0, used |-> 0]

\* A summary of the accesses a call made to an array: how many, and the
\* lowest and highest index (0 when there was none).
None == [n |-> 0, lo |-> 0, hi |-> 0]
Touch(acc, i) ==
  [n |-> acc.n + 1,
   lo |-> IF acc.n = 0 \/ i < acc.lo THEN i ELSE acc.lo,
   hi |-> IF acc.n = 0 \/ i > acc.hi THEN i ELSE acc.hi]

\* sBuffer[i] and sBuffer[i] = v.  An index outside the array addresses other
\* memory: the store is recorded in wr and leaves sBuffer as it is.
Load(st, i) == IF i \in BufIdx THEN ByteAt(st.buf, i) ELSE 0
Store(st, i, v) ==
  [st EXCEPT !.buf = IF i \in BufIdx THEN [@ EXCEPT ![i + 1] = U8(v)] ELSE @,
             !.wr = Touch(@, i)]

\* ------------------------------------------------------------------------
\* Sprites::drawBitmap
\* ------------------------------------------------------------------------
\* a variant of OffScreen whose test of the right edge is off by one
OffScreenRightLate(px, py, w, h) ==
  \/ S16(px + w) <= 0
  \/ px > WIDTH
  \/ S16(py + h) <= 0
  \/ py > HEIGHT - 1
\* the off-screen test at the head of drawBitmap (x + w and y + h are int
\* sums, 16 bits wide)
OffScreen(px, py, w, h) ==
  \/ S16(px + w) <= 0
  \/ px > WIDTH - 1
  \/ S16(py + h) <= 0
  \/ py > HEIGHT - 1

\* yOffset = abs(y) % 8; sRow = y / 8; if (y < 0 && yOffset > 0) { sRow--;
\* yOffset = 8 - yOffset; }
SpriteAlign(py) ==
  LET yOffset0 == S8(CMod(Abs(py), 8))
      sRow0 == S8(CDiv(py, 8))
      neg == py < 0 /\ yOffset0 > 0
  IN [sRow |-> IF neg THEN S8(sRow0 - 1) ELSE sRow0,
      yOffset |-> IF neg THEN S8(8 - yOffset0) ELSE yOffset0,
      corrected |-> neg]
\* the clipping set-up of drawBitmap: every local computed before the switch
Setup(px, py, bm, mk, w, h) ==
  LET sRow1 == SpriteAlign(py).sRow
      yOffset == SpriteAlign(py).yOffset
      xOffset == IF px < 0 THEN U16(Abs(px)) ELSE 0
      rendered_width ==
        IF px + w > WIDTH - 1 THEN U8((WIDTH - px) - xOffset) ELSE U8(w - xOffset)
      start_h == IF sRow1 < -1 THEN U8(Abs(sRow1) - 1) ELSE 0
      loop_h0 == U8(h \div 8 + (IF h % 8 > 0 THEN 1 ELSE 0))
      loop_h1 == IF sRow1 + loop_h0 > HEIGHT \div 8
                 THEN U8((HEIGHT \div 8) - sRow1) ELSE loop_h0
      sRow == S8(sRow1 + start_h)
  IN [ yOffset |-> yOffset,
       xOffset |-> xOffset,
       rendered_width |-> rendered_width,
       start_h |-> start_h,
       loop_h |-> U8(loop_h1 - start_h),
       sRow |-> sRow,
       ofs |-> U16((sRow * WIDTH) + px + xOffset),
       bofs |-> PtrAdd(bm, (start_h * w) + xOffset),
       mask_ofs |-> IF mk = NULL THEN NULL ELSE PtrAdd(mk, (start_h * w) + xOffset),
       mul_amt |-> U8(Pow2(yOffset)),
       w |-> w ]

\* reading *bofs / *mask_ofs, recorded
ReadB(st) == [st EXCEPT !.brd = Touch(@, st.bofs.off)]
ReadM(st) == [st EXCEPT !.mrd = Touch(@, st.mask_ofs.off)]

\* a variant of SecondPage that lets the last page through
SecondPageOfAny(yOffset, sRow) == yOffset # 0 /\ sRow < 8
\* the guard of the store to the page below: yOffset != 0 && sRow < 7
SecondPage(yOffset, sRow) == yOffset # 0 /\ sRow < 7
\* the guard of the store to the current page: sRow >= 0
FirstPage(sRow) == sRow >= 0

\* the two stores common to the masked kinds: data &= mask; data |= bitmap,
\* on the current page (low bytes) and on the page below (high bytes)
Combine(st, g, mask_data, bitmap_data) ==
  LET s1 == IF FirstPage(st.sRow)
            THEN Store(st, st.ofs,
                       Or8(And8(Load(st, st.ofs), LoByte(mask_data)), LoByte(bitmap_data)))
            ELSE st
      i2 == U16(st.ofs + WIDTH)
  IN IF SecondPage(g.yOffset, st.sRow)
     THEN Store(s1, i2, Or8(And8(Load(s1, i2), HiByte(mask_data)), HiByte(bitmap_data)))
     ELSE s1

\* a variant of UnmaskedMask that keeps no bit of the bytes stored to
UnmaskedMaskWholeByte(mul_amt) == 0
\* a variant of UnmaskedMask that is not shifted
UnmaskedMaskUnshifted(mul_amt) == Not16(255)
\* the mask of SPRITE_UNMASKED, computed before the loop: ~(0xFF * mul_amt)
UnmaskedMask(mul_amt) == Not16(255 * mul_amt)

\* a variant of StepUnmasked that stores the image bytes as they are
StepUnmaskedPlain(st, g) ==
  LET bitmap_data == U16(pgm_read_byte(st.bofs) * g.mul_amt)
  IN Combine(ReadB(st), g, 0, bitmap_data)
\* body of the inner loop, case SPRITE_UNMASKED
StepUnmasked(st, g) ==
  LET bitmap_data == U16(pgm_read_byte(st.bofs) * g.mul_amt)
  IN Combine(ReadB(st), g, UnmaskedMask(g.mul_amt), bitmap_data)

\* a variant of StepIsMask that stores to the current page only
StepIsMaskOnePage(st, g) ==
  LET bitmap_data == U16(pgm_read_byte(st.bofs) * g.mul_amt)
      s0 == ReadB(st)
  IN IF FirstPage(st.sRow)
     THEN Store(s0, st.ofs, Or8(Load(s0, st.ofs), LoByte(bitmap_data)))
     ELSE s0
\* a variant of StepIsMask that toggles the pixels
StepIsMaskToggle(st, g) ==
  LET bitmap_data == U16(pgm_read_byte(st.bofs) * g.mul_amt)
      s0 == ReadB(st)
      s1 == IF FirstPage(st.sRow)
            THEN Store(s0, st.ofs, Xor8(Load(s0, st.ofs), LoByte(bitmap_data)))
            ELSE s0
      i2 == U16(st.ofs + WIDTH)
  IN IF SecondPage(g.yOffset, st.sRow)
     THEN Store(s1, i2, Xor8(Load(s1, i2), HiByte(bitmap_data)))
     ELSE s1
\* body of the inner loop, case SPRITE_IS_MASK
StepIsMask(st, g) ==
  LET bitmap_data == U16(pgm_read_byte(st.bofs) * g.mul_amt)
      s0 == ReadB(st)
      s1 == IF FirstPage(st.sRow)
            THEN Store(s0, st.ofs, Or8(Load(s0, st.ofs), LoByte(bitmap_data)))
            ELSE s0
      i2 == U16(st.ofs + WIDTH)
  IN IF SecondPage(g.yOffset, st.sRow)
     THEN Store(s1, i2, Or8(Load(s1, i2), HiByte(bitmap_data)))
     ELSE s1

\* a variant of StepIsMaskErase that stores to the current page only
StepIsMaskEraseOnePage(st, g) ==
  LET bitmap_data == U16(pgm_read_byte(st.bofs) * g.mul_amt)
      s0 == ReadB(st)
  IN IF FirstPage(st.sRow)
     THEN Store(s0, st.ofs, And8(Load(s0, st.ofs), Not8(LoByte(bitmap_data))))
     ELSE s0
\* a variant of StepIsMaskErase that does not shift the image byte
StepIsMaskEraseUnshifted(st, g) ==
  LET bitmap_data == pgm_read_byte(st.bofs)
      s0 == ReadB(st)
      s1 == IF FirstPage(st.sRow)
            THEN Store(s0, st.ofs, And8(Load(s0, st.ofs), Not8(LoByte(bitmap_data))))
            ELSE s0
      i2 == U16(st.ofs + WIDTH)
  IN IF SecondPage(g.yOffset, st.sRow)
     THEN Store(s1, i2, And8(Load(s1, i2), Not8(HiByte(bitmap_data))))
     ELSE s1
\* body of the inner loop, case SPRITE_IS_MASK_ERASE
StepIsMaskErase(st, g) ==
  LET bitmap_data == U16(pgm_read_byte(st.bofs) * g.mul_amt)
      s0 == ReadB(st)
      s1 == IF FirstPage(st.sRow)
            THEN Store(s0, st.ofs, And8(Load(s0, st.ofs), Not8(LoByte(bitmap_data))))
            ELSE s0
      i2 == U16(st.ofs + WIDTH)
  IN IF SecondPage(g.yOffset, st.sRow)
     THEN Store(s1, i2, And8(Load(s1, i2), Not8(HiByte(bitmap_data))))
     ELSE s1

\* a variant of StepMasked whose mask is not shifted
StepMaskedUnshifted(st, g) ==
  LET mask_data == Not16(pgm_read_byte(st.mask_ofs))
      bitmap_data == U16(pgm_read_byte(st.bofs) * g.mul_amt)
  IN Combine(ReadM(ReadB(st)), g, mask_data, bitmap_data)
\* body of the inner loop, case SPRITE_MASKED
StepMasked(st, g) ==
  LET mask_data == Not16(pgm_read_byte(st.mask_ofs) * g.mul_amt)
      bitmap_data == U16(pgm_read_byte(st.bofs) * g.mul_amt)
  IN Combine(ReadM(ReadB(st)), g, mask_data, bitmap_data)

Step(st, g, draw_mode) ==
  CASE draw_mode = SPRITE_UNMASKED -> StepUnmasked(st, g)
    [] draw_mode = SPRITE_IS_MASK -> StepIsMask(st, g)
    [] draw_mode = SPRITE_IS_MASK_ERASE -> StepIsMaskErase(st, g)
    [] draw_mode = SPRITE_MASKED -> StepMasked(st, g)

\* ofs++; bofs++ (and mask_ofs++ in the masked loop); iCol++
NextCol(st, draw_mode) ==
  [st EXCEPT !.ofs = U16(@ + 1),
             !.bofs = PtrAdd(@, 1),
             !.mask_ofs = IF draw_mode = SPRITE_MASKED THEN PtrAdd(@, 1) ELSE @,
             !.iCol = U8(@ + 1)]

\* sRow++; bofs += w - rendered_width; ofs += WIDTH - rendered_width; a++
NextRow(st, g, draw_mode) ==
  [st EXCEPT !.sRow = S8(@ + 1),
             !.bofs = PtrAdd(@, g.w - g.rendered_width),
             !.mask_ofs = IF draw_mode = SPRITE_MASKED
                          THEN PtrAdd(@, g.w - g.rendered_width) ELSE @,
             !.ofs = U16(@ + WIDTH - g.rendered_width),
             !.a = U8(@ + 1)]

\* for (iCol = 0; iCol < rendered_width; iCol++): the passes the guard allows,
\* at most n of them.  The passes run in order: the first half of them, then,
\* if the guard still holds, the rest, so that evaluation nests only log-deep.
RECURSIVE ColLoop(_, _, _, _)
ColRest(half, g, draw_mode, n) ==
  IF half.iCol < g.rendered_width THEN ColLoop(half, g, draw_mode, n) ELSE half
ColLoop(st, g, draw_mode, n) ==
  IF n <= 1
  THEN (IF st.iCol < g.rendered_width
        THEN NextCol(Step(st, g, draw_mode), draw_mode) ELSE st)
  ELSE ColRest(ColLoop(st, g, draw_mode, n \div 2), g, draw_mode, n - (n \div 2))

\* for (a = 0; a < loop_h; a++)
RECURSIVE RowLoop(_, _, _)
RowLoop(st, g, draw_mode) ==
  IF st.a < g.loop_h
  THEN RowLoop(NextRow(ColLoop([st EXCEPT !.iCol = 0], g, draw_mode, g.rendered_width),
                       g, draw_mode),
               g, draw_mode)
  ELSE st

\* case SPRITE_PLUS_MASK, the asm block.  X (ofs) is buffer_ofs, Y (ofs2) the
\* same address one page below, Z (bofs) the interleaved image/mask cursor.
\* One pass of loop_x up to "dec xi":
StepPlusMask(st, g) ==
  LET image == pgm_read_byte(st.bofs)                    \* lpm bitmap_data, Z+
      maskb == pgm_read_byte(PtrAdd(st.bofs, 1))         \* lpm mask_data, Z+
      s0 == [st EXCEPT !.brd = Touch(Touch(@, st.bofs.off), PtrAdd(st.bofs, 1).off),
                       !.bofs = PtrAdd(@, 2)]
      \* tst yOffset / breq skip_shifting / mul
      bitmap_data == IF g.yOffset # 0 THEN U16(image * g.mul_amt) ELSE image
      mask_data == IF g.yOffset # 0 THEN U16(maskb * g.mul_amt) ELSE maskb
      \* cpi sRow, 7 / brge end_second_page ... st Y+
      s1 == IF SecondPage(g.yOffset, st.sRow)
            THEN [Store(s0, s0.ofs2,
                        Or8(And8(Load(s0, s0.ofs2), Not8(HiByte(mask_data))),
                            HiByte(bitmap_data)))
                  EXCEPT !.ofs2 = U16(@ + 1)]
            ELSE s0
      \* tst sRow / brmi skip_first_page ... st X+ (adiw when skipped)
      s2 == IF FirstPage(st.sRow)
            THEN Store(s1, s1.ofs,
                       Or8(And8(Load(s1, s1.ofs), Not8(LoByte(mask_data))),
                           LoByte(bitmap_data)))
            ELSE s1
  IN [s2 EXCEPT !.ofs = U16(@ + 1)]

\* loop_x: the body and dec xi, then brne loop_x.  The body runs before the
\* test, so a count of 0 on entry makes 256 passes.  At most n passes, halved
\* as in ColLoop.
RECURSIVE PlusLoopX(_, _, _)
PlusContinueX(half, g, n) == IF half.xi # 0 THEN PlusLoopX(half, g, n) ELSE half
PlusLoopX(st, g, n) ==
  IF n <= 1 THEN [StepPlusMask(st, g) EXCEPT !.xi = U8(@ - 1)]
  ELSE PlusContinueX(PlusLoopX(st, g, n \div 2), g, n - (n \div 2))

\* the operand sprite_ofs_jump, (w - rendered_width) * 2, as the asm adds it:
\* add %A[sprite_ofs], %A[sprite_ofs_jump] / adc %B[sprite_ofs], __zero_reg__
SpriteOfsJump(w, rendered_width) == LoByte((w - rendered_width) * 2)
\* the operand buffer_ofs_jump, WIDTH - rendered_width, added the same way
BufferOfsJump(rendered_width) == LoByte(WIDTH - rendered_width)

\* next_loop_y after "breq finished": mov xi, x_count; inc sRow and the three
\* cursor jumps
PlusNextRow(st, g) ==
  [st EXCEPT !.xi = g.rendered_width,
             !.sRow = S8(@ + 1),
             !.bofs = PtrAdd(@, SpriteOfsJump(g.w, g.rendered_width)),
             !.ofs = U16(@ + BufferOfsJump(g.rendered_width)),
             !.ofs2 = U16(@ + BufferOfsJump(g.rendered_width))]

\* loop_y: loop_x and dec yi, then breq finished
RECURSIVE PlusLoopY(_, _)
PlusTestY(st, g) == IF st.yi = 0 THEN st ELSE PlusLoopY(PlusNextRow(st, g), g)
PlusLoopY(st, g) ==
  PlusTestY([PlusLoopX(st, g, IF st.xi = 0 THEN 256 ELSE st.xi) EXCEPT !.yi = U8(@ - 1)], g)

\* the result of a call: the buffer and what the call touched
Result(st) == [buf |-> st.buf, wr |-> st.wr, brd |-> st.brd, mrd |-> st.mrd]
NoEffect(buf) == [buf |-> buf, wr |-> None, brd |-> None, mrd |-> None]

\* Sprites::drawBitmap(x, y, bitmap, mask, w, h, draw_mode) on buffer buf
drawBitmap(buf, px, py, bm, mk, w, h, draw_mode) ==
  IF OffScreen(px, py, w, h) THEN NoEffect(buf)
  ELSE IF bm = NULL THEN NoEffect(buf)
  ELSE
    LET g == Setup(px, py, bm, mk, w, h)
        st0 == [buf |-> buf, wr |-> None, brd |-> None, mrd |-> None,
                ofs |-> g.ofs, ofs2 |-> U16(g.ofs + 128),
                bofs |-> g.bofs, mask_ofs |-> g.mask_ofs, sRow |-> g.sRow,
                iCol |-> 0, a |-> 0, xi |-> g.rendered_width, yi |-> g.loop_h]
    IN CASE draw_mode \in {SPRITE_UNMASKED, SPRITE_IS_MASK,
                           SPRITE_IS_MASK_ERASE, SPRITE_MASKED} ->
              Result(RowLoop(st0, g, draw_mode))
         [] draw_mode = SPRITE_PLUS_MASK ->
              Result(PlusLoopY(
                [st0 EXCEPT !.bofs = PtrAdd(bm, ((g.start_h * w) + g.xOffset) * 2)], g))
         [] OTHER -> NoEffect(buf)

\* ------------------------------------------------------------------------
\* Sprites::draw
\* ------------------------------------------------------------------------
\* frame_offset = width * (height / 8 + (height % 8 == 0 ? 0 : 1)), doubled
\* for SPRITE_PLUS_MASK
\* a variant of FrameOffset that is not doubled for SPRITE_PLUS_MASK
FrameOffsetSingle(width, height, drawMode) ==
  U16(width * (height \div 8 + (IF height % 8 = 0 THEN 0 ELSE 1)))
FrameOffset(width, height, drawMode) ==
  LET fo == U16(width * (height \div 8 + (IF height % 8 = 0 THEN 0 ELSE 1)))
  IN IF drawMode = SPRITE_PLUS_MASK THEN U16(fo * 2) ELSE fo

\* the reads of width and height, pgm_read_byte(bitmap) and
\* pgm_read_byte(++bitmap), added to the reads acc of the image array
ReadHeader(bm, acc) ==
  LET two == Touch(Touch(None, bm.off), PtrAdd(bm, 1).off)
  IN IF acc.n = 0 THEN two
     ELSE [n |-> acc.n + 2,
           lo |-> IF two.lo < acc.lo THEN two.lo ELSE acc.lo,
           hi |-> IF two.hi > acc.hi THEN two.hi ELSE acc.hi]
\* Sprites::draw after the read of the header: the frame addressing and the
\* call of drawBitmap
drawFrame(buf, px, py, bm, fr, mk, sprite_frame, drawMode) ==
  LET width == pgm_read_byte(bm)
      height == pgm_read_byte(PtrAdd(bm, 1))
      bm2 == PtrAdd(bm, 2)
      moved == fr > 0 \/ sprite_frame > 0
      frame_offset == FrameOffset(width, height, drawMode)
      mk1 == IF moved /\ drawMode # SPRITE_PLUS_MASK /\ mk # NULL
             THEN PtrAdd(mk, U16(sprite_frame * frame_offset)) ELSE mk
      bm3 == IF moved THEN PtrAdd(bm2, U16(fr * frame_offset)) ELSE bm2
      mode1 == IF drawMode = SPRITE_AUTO_MODE
               THEN (IF mk1 = NULL THEN SPRITE_UNMASKED ELSE SPRITE_MASKED)
               ELSE drawMode
  IN drawBitmap(buf, px, py, bm3, mk1, width, height, mode1)
\* Sprites::draw from the read of the header on
drawFromHeader(buf, px, py, bm, fr, mk, sprite_frame, drawMode) ==
  [drawFrame(buf, px, py, bm, fr, mk, sprite_frame, drawMode)
     EXCEPT !.brd = ReadHeader(bm, @)]
\* a variant of draw that tests the pointer after it read the header
drawNullAfterHeader(buf, px, py, bm, fr, mk, sprite_frame, drawMode) ==
  IF bm = NULL THEN [NoEffect(buf) EXCEPT !.brd = ReadHeader(bm, @)]
  ELSE drawFromHeader(buf, px, py, bm, fr, mk, sprite_frame, drawMode)
draw(buf, px, py, bm, fr, mk, sprite_frame, drawMode) ==
  IF bm = NULL THEN NoEffect(buf)
  ELSE drawFromHeader(buf, px, py, bm, fr, mk, sprite_frame, drawMode)

\* ------------------------------------------------------------------------
\* Arduboy2Base::fillScreen
\* ------------------------------------------------------------------------
fillScreen(color) == AllBytes(IF color # 0 THEN 255 ELSE 0)

\* ------------------------------------------------------------------------
\* cabi (extras/cabi/cabi.c): compress_rle and what it calls.  The session
\* state cs is a record; the bytes printed are collected in cs.out.
\* ------------------------------------------------------------------------
Or16(a, b) == Or8(LoByte(a), LoByte(b)) + 256 * Or8(HiByte(a), HiByte(b))

\* cs.src[i]: the raw image is a sequence of bytes, byte i its element i + 1;
\* what follows its last byte is other memory of the process, holding cs.after
SrcByte(cs, i) == IF i < Len(cs.src) THEN cs.src[i + 1] ELSE cs.after

\* a variant of getcol that takes the bits of a byte from the top
getcolFromTop(cs, pos) == IF BitOf(SrcByte(cs, pos \div 8), 7 - (pos % 8)) # 0 THEN 1 ELSE 0
\* a variant of getcol in reading order, the branch taken when reading_order
\* is not 0: x = pos % w; y = pos / w; bit y & 7 of byte x + (y/8)*w
getcolReadingOrder(cs, pos) ==
  IF BitOf(SrcByte(cs, (pos % cs.w) + (((pos \div cs.w) \div 8) * cs.w)),
           (pos \div cs.w) % 8) # 0
  THEN 1 ELSE 0
\* getcol, display order: bit pos & 7 of byte pos / 8
getcol(cs, pos) == IF BitOf(SrcByte(cs, pos \div 8), pos % 8) # 0 THEN 1 ELSE 0

\* while (getcol(pos) == col && pos < plen) pos++ : the position the loop
\* ends at is the first one, from pos on, where its condition fails (plen
\* at the latest)
FindLoop(cs, col, plen, pos) ==
  LET ends == {p \in {pos} \cup (pos .. plen) : ~(getcol(cs, p) = col /\ p < plen)}
  IN CHOOSE p \in ends : \A q \in ends : p <= q
\* a variant of find_rlen whose run ends with the source byte it starts in
find_rlenInByte(cs, pos, plen) ==
  IF FindLoop(cs, getcol(cs, pos), plen, pos) > ((pos \div 8) + 1) * 8
  THEN (((pos \div 8) + 1) * 8) - pos
  ELSE FindLoop(cs, getcol(cs, pos), plen, pos) - pos
find_rlen(cs, pos, plen) == FindLoop(cs, getcol(cs, pos), plen, pos) - pos

putbit(cs, val) ==
  LET byte == IF val # 0 THEN Or8(cs.byte, cs.bit) ELSE cs.byte
      bit == cs.bit * 2
  IN IF bit = 256
     THEN [cs EXCEPT !.out = Append(@, byte), !.out_pos = @ + 1, !.bit = 1, !.byte = 0]
     ELSE [cs EXCEPT !.byte = byte, !.bit = bit]

\* the index k of the bit a stream position 1 << k stands for
BitIndex(bit) == CHOOSE k \in 0 .. 8 : Pow2(k) = bit

\* for (i = 0; i < bits; i++) putbit(val & (1 << i)); st holds cs and i
RECURSIVE PutLoop(_, _, _)
PutLoop(st, val, bits) ==
  IF st.i < bits
  THEN PutLoop([cs |-> putbit(st.cs, BitOf(val, st.i) * Pow2(st.i)), i |-> st.i + 1],
               val, bits)
  ELSE st
putval(cs, val, bits) == IF bits <= 0 THEN cs ELSE PutLoop([cs |-> cs, i |-> 0], val, bits).cs

\* while ((unsigned)(1 << blen) <= len) blen += 2
RECURSIVE SpanBits(_, _)
SpanBits(blen, len) == IF Pow2(blen) <= len THEN SpanBits(blen + 2, len) ELSE blen
\* a variant of putsplen whose prefix is one 0 bit longer
putsplenLongPrefix(cs, len) ==
  LET blen == SpanBits(1, len)
  IN putval(putval(putval(cs, 0, (blen + 1) \div 2), 1, 1), len, blen)
putsplen(cs, len) ==
  LET blen == SpanBits(1, len)
  IN putval(putval(putval(cs, 0, (blen - 1) \div 2), 1, 1), len, blen)

\* the body of the span loop of compress_rle
EncodeSpan(st, plen) ==
  LET rlen == find_rlen(st.cs, st.pos, plen)
  IN [cs |-> putsplen(st.cs, rlen - 1), pos |-> st.pos + rlen]
\* while (pos < w*h): the passes its guard allows, at most n of them, halved
\* as in ColLoop
RECURSIVE EncodeLoop(_, _, _)
EncodeRest(half, plen, n) == IF half.pos < plen THEN EncodeLoop(half, plen, n) ELSE half
EncodeLoop(st, plen, n) ==
  IF n <= 1 THEN (IF st.pos < plen THEN EncodeSpan(st, plen) ELSE st)
  ELSE EncodeRest(EncodeLoop(st, plen, n \div 2), plen, n - (n \div 2))
\* the whole loop: n passes, then 2n more, then 4n more, until the guard fails
RECURSIVE EncodeSpans(_, _, _)
EncodeMore(some, plen, n) == IF some.pos < plen THEN EncodeSpans(some, plen, 2 * n) ELSE some
EncodeSpans(st, plen, n) == EncodeMore(EncodeLoop(st, plen, n), plen, n)
\* while (cs.bit != 0x1) putbit(0)
RECURSIVE PadLoop(_)
PadLoop(cs) == IF cs.bit # 1 THEN PadLoop(putbit(cs, 0)) ELSE cs

\* memset(&cs, 0, sizeof(cs)); cs.src = src; cs.bit = 1; cs.w = w; cs.h = h
Session(src, w, h, after) ==
  [src |-> src, after |-> after, byte |-> 0, bit |-> 1, out |-> <<>>, out_pos |-> 0,
   w |-> w, h |-> h]
\* the header of a stream: width - 1, height - 1, first colour
Header(cs, w, h, col) == putval(putval(putval(cs, w - 1, 8), h - 1, 8), col, 1)

\* compress_rle(src, w, h, ...) up to its padding: the session after the
\* header and the spans
Encoded(src, w, h, after) ==
  LET cs0 == Session(src, w, h, after)
      cs1 == Header(cs0, w, h, getcol(cs0, 0))
  IN EncodeSpans([cs |-> cs1, pos |-> 0], w * h, 1).cs
\* compress_rle(src, w, h, ...): the array of bytes it prints
compress_rle(src, w, h, after) == PadLoop(Encoded(src, w, h, after)).out

\* The scan positions getcol is evaluated at.  find_rlen evaluates getcol(pos)
\* for col, and then its loop condition getcol(pos) == col && pos < plen from
\* left to right at every position from pos up to the one where it fails,
\* that one included.  st holds the position reached and the number of spans.
ProbeSpan(st, cs, plen) ==
  [pos |-> FindLoop(cs, getcol(cs, st.pos), plen, st.pos), spans |-> st.spans + 1]
\* while (pos < w*h), as in EncodeLoop
RECURSIVE ProbeLoop(_, _, _, _)
ProbeRest(half, cs, plen, n) == IF half.pos < plen THEN ProbeLoop(half, cs, plen, n) ELSE half
ProbeLoop(st, cs, plen, n) ==
  IF n <= 1 THEN (IF st.pos < plen THEN ProbeSpan(st, cs, plen) ELSE st)
  ELSE ProbeRest(ProbeLoop(st, cs, plen, n \div 2), cs, plen, n - (n \div 2))
RECURSIVE ProbeSpans(_, _, _, _)
ProbeMore(some, cs, plen, n) ==
  IF some.pos < plen THEN ProbeSpans(some, cs, plen, 2 * n) ELSE some
ProbeSpans(st, cs, plen, n) == ProbeMore(ProbeLoop(st, cs, plen, n), cs, plen, n)
\* the reads of cs.src compress_rle makes: one for the first colour, and for
\* each span one for col and one for each position of the span and for the
\* position after it; the lowest and the highest index read
SourceReads(src, w, h, after) ==
  LET st == ProbeSpans([pos |-> 0, spans |-> 0], Session(src, w, h, after), w * h, 1)
  IN [n |-> 1 + st.pos + (2 * st.spans), lo |-> 0, hi |-> st.pos \div 8]

\* ------------------------------------------------------------------------
\* Arduboy2Base::BitStreamReader and Arduboy2Base::drawCompressed
\* ------------------------------------------------------------------------
BitStreamReader(bm, after) ==
  [source |-> bm, after |-> after, sourceIndex |-> 0, bitBuffer |-> 0, byteBuffer |-> 0]
\* pgm_read_byte(&source[sourceIndex]); after the array's last byte comes
\* whatever follows it in flash
StreamByte(bs) ==
  IF bs.sourceIndex < Len(bs.source) THEN bs.source[bs.sourceIndex + 1] ELSE bs.after

\* the loop of readBits; result and 1 << i are 16 bits wide; st holds the
\* reader, i and result
RECURSIVE ReadLoop(_, _)
ReadLoop(st, bitCount) ==
  IF ~(st.i < bitCount) THEN st
  ELSE
    LET bs == st.bs
        b1 == IF bs.bitBuffer = 0
              THEN [bs EXCEPT !.bitBuffer = 1, !.byteBuffer = StreamByte(bs),
                              !.sourceIndex = U16(@ + 1)]
              ELSE bs
        r1 == IF And8(b1.byteBuffer, b1.bitBuffer) # 0
              THEN Or16(st.result, U16(Pow2(st.i))) ELSE st.result
    IN ReadLoop([bs |-> [b1 EXCEPT !.bitBuffer = U8(@ * 2)], i |-> U16(st.i + 1),
                 result |-> r1], bitCount)
readBits(bs, bitCount) == ReadLoop([bs |-> bs, i |-> 0, result |-> 0], bitCount)

\* while (cs.readBits(1) == 0) bitLength += 2
RECURSIVE PrefixLoop(_, _)
PrefixLoop(bs, bitLength) ==
  LET r == readBits(bs, 1)
  IN IF r.result = 0 THEN PrefixLoop(r.bs, U16(bitLength + 2))
     ELSE [bs |-> r.bs, bitLength |-> bitLength]

\* the off-screen test of drawCompressed (sx + width and sy + height are int
\* sums, 16 bits wide; where one overflows the test on its right decides)
OffScreenCompressed(sx, sy, width, height) ==
  \/ S16(sx + width) <= 0
  \/ sx > WIDTH - 1
  \/ S16(sy + height) <= 0
  \/ sy > HEIGHT - 1

\* the guards of the stores of a finished byte (PageBelowOfAny: a variant of
\* PageBelow that does not look at the row)
RowOnScreen(bRow) == bRow <= (HEIGHT \div 8) - 1 /\ bRow > -2
ColumnOnScreen(columnOffset, sx) == columnOffset + sx <= WIDTH - 1 /\ columnOffset + sx >= 0
PageBelowOfAny(yOffset, bRow) == yOffset # 0
PageBelow(yOffset, bRow) == yOffset # 0 /\ bRow < (HEIGHT \div 8) - 1

\* a variant of Blend that sets the pixels whatever the color
BlendLit(st, index, value, color) == Store(st, index, Or8(Load(st, index), value))
\* sBuffer[index] |= value, or sBuffer[index] &= ~value
Blend(st, index, value, color) ==
  IF color # 0 THEN Store(st, index, Or8(Load(st, index), value))
  ELSE Store(st, index, And8(Load(st, index), Not8(value)))

\* if (bit == 0): draw the byte, iterate, reset byte
Flush(st, g) ==
  LET bRow == g.startRow + st.rowOffset
      offset == S16((bRow * WIDTH) + g.sx + st.columnOffset)
      s1 == IF bRow >= 0
            THEN Blend(st, offset, U8(st.byte * Pow2(g.yOffset)), g.color)
            ELSE st
      s2 == IF PageBelow(g.yOffset, bRow)
            THEN Blend(s1, S16(offset + WIDTH), U8(st.byte \div Pow2(8 - g.yOffset)), g.color)
            ELSE s1
      s3 == IF RowOnScreen(bRow) /\ ColumnOnScreen(st.columnOffset, g.sx) THEN s2 ELSE st
      wrap == st.columnOffset + 1 >= g.width
  IN [s3 EXCEPT !.columnOffset = IF wrap THEN 0 ELSE @ + 1,
                !.rowOffset = IF wrap THEN @ + 1 ELSE @,
                !.byte = 0, !.bit = 1]

\* one pass of for (uint16_t i = 0; i < len; ++i)
DrawPixelOfSpan(st, g) ==
  LET s1 == [st EXCEPT !.byte = IF st.spanColour # 0 THEN Or8(@, st.bit) ELSE @,
                       !.bit = U8(@ * 2)]
      s2 == IF s1.bit = 0 THEN Flush(s1, g) ELSE s1
  IN [s2 EXCEPT !.i = U16(@ + 1)]
\* the loop: the passes its guard allows, at most n of them, halved as in
\* ColLoop
RECURSIVE SpanPixels(_, _, _)
SpanRest(half, g, n) == IF half.i < half.len THEN SpanPixels(half, g, n) ELSE half
SpanPixels(st, g, n) ==
  IF n <= 1 THEN (IF st.i < st.len THEN DrawPixelOfSpan(st, g) ELSE st)
  ELSE SpanRest(SpanPixels(st, g, n \div 2), g, n - (n \div 2))

\* one pass of while (rowOffset < rows): read a span, draw it, toggle the colour
DecodeSpan(st, g) ==
  LET pre1 == PrefixLoop(st.cs, 1)
      r == readBits(pre1.bs, pre1.bitLength)
      s1 == [st EXCEPT !.cs = r.bs, !.len = U16(r.result + 1), !.i = 0]
      s2 == SpanPixels(s1, g, s1.len)
  IN [s2 EXCEPT !.spanColour = Xor8(@, 1)]
\* while (rowOffset < rows): the passes its guard allows, at most n of them
RECURSIVE DecodeLoop(_, _, _)
DecodeRest(half, g, n) == IF half.rowOffset < g.rows THEN DecodeLoop(half, g, n) ELSE half
DecodeLoop(st, g, n) ==
  IF n <= 1 THEN (IF st.rowOffset < g.rows THEN DecodeSpan(st, g) ELSE st)
  ELSE DecodeRest(DecodeLoop(st, g, n \div 2), g, n - (n \div 2))
\* the whole loop: n passes, then 2n more, then 4n more, until the guard fails
RECURSIVE DecodeSpans(_, _, _)
DecodeMore(some, g, n) == IF some.rowOffset < g.rows THEN DecodeSpans(some, g, 2 * n) ELSE some
DecodeSpans(st, g, n) == DecodeMore(DecodeLoop(st, g, n), g, n)

\* the number of bits readBits has handed out: those of the bytes fetched
\* but for the ones of the last byte still to come
BitsRead(bs) ==
  (bs.sourceIndex * 8) - (IF bs.bitBuffer = 0 THEN 0 ELSE 8 - BitIndex(bs.bitBuffer))
\* the number of passes the span loops have made, which is the sum of the
\* span lengths read: every pass moves the cursor (rowOffset, columnOffset,
\* bit) one pixel on
PixelsDone(st, width) ==
  (((st.rowOffset * width) + st.columnOffset) * 8) + BitIndex(st.bit)
\* a variant of Rows that is one short where the height is a multiple of 8
RowsShort(height) == (height - 1) \div 8
\* rows = height / 8; if ((height % 8) != 0) ++rows
Rows(height) == (height \div 8) + (IF height % 8 # 0 THEN 1 ELSE 0)
\* a variant of CompressedAlign that corrects only where abs(sy) % 8 is not 0
CompressedAlignWhenOffset(sy) ==
  [startRow |-> IF sy < 0 /\ Abs(sy) % 8 > 0 THEN CDiv(sy, 8) - 1 ELSE CDiv(sy, 8),
   yOffset |-> IF sy < 0 /\ Abs(sy) % 8 > 0 THEN 8 - (Abs(sy) % 8) ELSE Abs(sy) % 8,
   corrected |-> sy < 0 /\ Abs(sy) % 8 > 0]
\* yOffset = abs(sy) % 8; startRow = sy / 8; if (sy < 0) { startRow--;
\* yOffset = 8 - yOffset; }
CompressedAlign(sy) ==
  [startRow |-> IF sy < 0 THEN CDiv(sy, 8) - 1 ELSE CDiv(sy, 8),
   yOffset |-> IF sy < 0 THEN 8 - (Abs(sy) % 8) ELSE Abs(sy) % 8,
   corrected |-> sy < 0]
\* drawCompressed(sx, sy, bitmap, color) on buffer buf: the buffer, the
\* stores made, the number of stream bytes fetched, the sum of the span
\* lengths read and the number of bits read
drawCompressed(buf, sx, sy, bm, color, after) ==
  LET r1 == readBits(BitStreamReader(bm, after), 8)
      r2 == readBits(r1.bs, 8)
      r3 == readBits(r2.bs, 1)
      width == r1.result + 1
      height == r2.result + 1
      g == [sx |-> sx, color |-> color, width |-> width,
            yOffset |-> CompressedAlign(sy).yOffset,
            startRow |-> CompressedAlign(sy).startRow,
            rows |-> Rows(height)]
      st0 == [buf |-> buf, wr |-> None, cs |-> r3.bs, spanColour |-> U8(r3.result),
              rowOffset |-> 0, columnOffset |-> 0, byte |-> 0, bit |-> 1,
              i |-> 0, len |-> 0]
  IN IF OffScreenCompressed(sx, sy, width, height)
     THEN [buf |-> buf, wr |-> None, fetched |-> r3.bs.sourceIndex, total |-> 0,
           bits |-> BitsRead(r3.bs)]
     ELSE LET st == DecodeSpans(st0, g, 1)
          IN [buf |-> st.buf, wr |-> st.wr, fetched |-> st.cs.sourceIndex,
              total |-> PixelsDone(st, width), bits |-> BitsRead(st.cs)]

\* ------------------------------------------------------------------------
\* The sketch: it clears or fills the screen and draws one sprite, at one
\* position, in any of the five modes, any number of times.
\* ------------------------------------------------------------------------
\* the number of calls a behaviour of the model makes
MaxCalls == 2

At(name, px, py) == [bitmap |-> name, x |-> px, y |-> py]
Sel(f, m, mf) == [frame |-> f, mask |-> m, mask_frame |-> mf]
\* image and position, with image frame, mask array and mask frame: every
\* edge of the screen, page-aligned and not, sprites clipped above, below, left
\* and right, and the ends of the int16_t range
Sketches ==
  ({At("ship", -2, py) : py \in {-11, -8, -3, 0, 3, 53, 56, 61}} \X {Sel(0, "mMix", 1)})
  \cup ({At("ship", -2, py) : py \in {-3, 0, 61}} \X {Sel(0, "mZero", 0)})
  \cup ({At("ship", px, py) : px \in {0, 126}, py \in {-3, 3, 61}}
     \X {Sel(1, "mMix", 0), Sel(1, "mOnes", 1)})
  \cup (({At("ship", px, 0) : px \in {-32768, -3, 128, 32767}}
          \cup {At("ship", 0, py) : py \in {-32768, -16, 64, 32767}})
     \X {Sel(0, "mMix", 1)})
  \cup ({At("NULL", 0, 0), At("NULL", -2, 61)} \X {Sel(0, "mMix", 0), Sel(1, "mOnes", 1)})
  \cup ({At("bar", 0, 3)} \X {Sel(0, "mOnes", 0)})
  \cup ({At("dot", 0, 0), At("dot", 127, 61), At("dot", 0, -3)}
     \X {Sel(1, "mMix", 0), Sel(0, "mZero", 0)})
  \cup ({At("tall", 0, -11), At("tall", 127, -3), At("tall", 0, 0)}
     \X {Sel(0, "mMix", 1), Sel(1, "mOnes", 1)})
  \cup ({At("wide", -129, 3), At("wide", -2, -11)} \X {Sel(1, "mMix", 0)})
  \cup ({At("wide", -129, 3), At("wide", 127, 3), At("wide", -2, 56)} \X {Sel(0, "mZero", 0)})

Init ==
  /\ sBuffer = AllBytes(0)
  /\ pre = sBuffer
  /\ \E s \in Sketches :
       /\ x = s[1].x /\ y = s[1].y /\ bitmap = s[1].bitmap
       /\ frame = s[2].frame /\ mask = s[2].mask /\ mask_frame = s[2].mask_frame
  /\ last = 0
  /\ calls = 0
  /\ written = None
  /\ brd = None
  /\ mrd = None
  /\ op = "none"
  /\ past = 0
  /\ stream = <<>>
  /\ colorArg = WHITE
  /\ fetched = 0
  /\ span = NoSpan
  /\ probe = NoProbe
  /\ PaceStart

\* a Sprites call in draw mode m with the sketch's arguments
Call(m, mk, mf) ==
  LET r == draw(sBuffer, x, y, Ptr(bitmap), frame, mk, mf, m)
  IN /\ calls < MaxCalls
     /\ calls' = calls + 1
     /\ sBuffer' = r.buf
     /\ pre' = sBuffer
     /\ last' = m
     /\ written' = r.wr
     /\ brd' = r.brd
     /\ mrd' = r.mrd
     /\ op' = "draw"
     /\ UNCHANGED <<x, y, bitmap, frame, mask, mask_frame, past, stream, colorArg, fetched, span, probe, paceVars>>

DrawExternalMask == Call(SPRITE_MASKED, Ptr(mask), mask_frame)
DrawOverwrite == Call(SPRITE_OVERWRITE, NULL, 0)
DrawErase == Call(SPRITE_IS_MASK_ERASE, NULL, 0)
DrawSelfMasked == Call(SPRITE_IS_MASK, NULL, 0)
DrawPlusMask == Call(SPRITE_PLUS_MASK, NULL, 0)

FillScreen ==
  \E color \in {BLACK, WHITE} :
    /\ sBuffer' = fillScreen(color)
    /\ pre' = sBuffer
    /\ last' = 0
    /\ written' = [n |-> BufSize, lo |-> 0, hi |-> BufSize - 1]
    /\ brd' = None
    /\ mrd' = None
    /\ op' = "fillScreen"
    /\ UNCHANGED <<x, y, bitmap, frame, mask, mask_frame, calls, past, stream, colorArg, fetched, span, probe, paceVars>>

Next ==
  \/ DrawExternalMask
  \/ DrawOverwrite
  \/ DrawErase
  \/ DrawSelfMasked
  \/ DrawPlusMask
  \/ FillScreen

Spec == Init /\ [][Next]_vars

\* ------------------------------------------------------------------------
\* The codec: cabi compresses a raw image, and the sketch fills the screen
\* and draws the compressed array, at one position, in either color.  A
\* sketch may also embed an array that cabi did not write.
\* ------------------------------------------------------------------------
\* raw images as main() hands them to compress_rle: one byte per column of
\* eight rows, the top row in bit 0
rawlen(w, h) == (w * (h + 7)) \div 8
\* bmp0 = malloc(rawlen); memset(bmp0, 0, rawlen); and the pixels set
bmp0(w, h, bytes) == [k \in 1 .. rawlen(w, h) |-> IF k <= Len(bytes) THEN bytes[k] ELSE 0]
Pictures ==
  [ white8 |-> [w |-> 8, h |-> 8, src |-> bmp0(8, 8, [k \in 1 .. 8 |-> 255])],
    stick  |-> [w |-> 1, h |-> 16, src |-> bmp0(1, 16, <<240, 15>>)],
    shape  |-> [w |-> 3, h |-> 16, src |-> bmp0(3, 16, [k \in 1 .. 6 |-> GenByte(k, 37)])],
    slab   |-> [w |-> 24, h |-> 16,
                src |-> bmp0(24, 16, [k \in 1 .. 48 |-> IF k = 48 THEN 127 ELSE 255])],
    tower  |-> [w |-> 2, h |-> 72,
                src |-> bmp0(2, 72, [k \in 1 .. 18 |-> <<255, 24, 0, 231, 15, 240>>[(k % 6) + 1]])] ]
\* arrays written by hand, in the format drawCompressed reads (width - 1,
\* height - 1, first colour, then the spans, bits from the low end of each
\* byte): a 2 x 8 image, white first, whose only span is 40 pixels long and
\* so runs 24 pixels past its end; and a 1 x 12 image, of a height that is no
\* multiple of 8, white first, with a span of 5 and a span of 11
Streams ==
  [ over   |-> <<1, 7, 241, 4>>,
    ragged |-> <<0, 11, 37, 21>> ]
\* positions: on the screen, across each edge, page-aligned above the
\* screen, and off the screen up to the ends of the int16_t range
Spots ==
  { <<0, 0>>, <<-2, -3>>, <<126, 61>>, <<0, -8>>, <<-1, -16>>, <<5, 56>>, <<127, 3>>,
    <<-32768, 0>>, <<32767, 5>>, <<3, -32768>>, <<0, 32767>>, <<128, 0>>, <<0, 64>>,
    <<-24, 0>> }

InitCodec ==
  /\ sBuffer = AllBytes(0)
  /\ pre = sBuffer
  /\ bitmap \in (DOMAIN Pictures) \cup (DOMAIN Streams)
  /\ \E s \in Spots : x = s[1] /\ y = s[2]
  /\ past \in {0, 255}
  /\ past = 255 => (x = 0 /\ y = 0)
  /\ stream = IF bitmap \in DOMAIN Streams THEN Streams[bitmap] ELSE <<>>
  /\ frame = 0
  /\ mask = "mZero"
  /\ mask_frame = 0
  /\ last = 0
  /\ calls = 0
  /\ written = None
  /\ brd = None
  /\ mrd = None
  /\ op = "none"
  /\ colorArg = WHITE
  /\ fetched = 0
  /\ span = NoSpan
  /\ probe = NoProbe
  /\ PaceStart

\* cabi: compress_rle on the raw image
Compress ==
  /\ bitmap \in DOMAIN Pictures
  /\ stream = <<>>
  /\ stream' = compress_rle(Pictures[bitmap].src, Pictures[bitmap].w, Pictures[bitmap].h, past)
  /\ brd' = SourceReads(Pictures[bitmap].src, Pictures[bitmap].w, Pictures[bitmap].h, past)
  /\ op' = "compress_rle"
  /\ UNCHANGED <<sBuffer, pre, x, y, bitmap, frame, mask, mask_frame, last, calls, written,
                 mrd, past, colorArg, fetched, span, probe, paceVars>>

\* the sketch: drawCompressed(x, y, stream, c)
DrawCompressed ==
  \E c \in {BLACK, WHITE} :
    LET r == drawCompressed(sBuffer, x, y, stream, c, past)
    IN /\ stream # <<>>
       /\ calls < MaxCalls
       /\ calls' = calls + 1
       /\ sBuffer' = r.buf
       /\ pre' = sBuffer
       /\ written' = r.wr
       /\ fetched' = r.fetched
       /\ colorArg' = c
       /\ op' = "drawCompressed"
       /\ UNCHANGED <<x, y, bitmap, frame, mask, mask_frame, last, brd, mrd, past, stream, span, probe, paceVars>>

NextCodec ==
  \/ Compress
  \/ DrawCompressed
  \/ FillScreen

SpecCodec == InitCodec /\ [][NextCodec]_vars

\* ------------------------------------------------------------------------
\* The framing of one span length: putsplen writes it, the span-length read
\* of drawCompressed and the one of cabi's draw_compressed_sprite_ascii read
\* it back.
\* ------------------------------------------------------------------------
\* get an n-bit number from the compressed data stream; val is an unsigned
\* of 32 bits, which the 17 bits of the longest span length do not fill; st
\* holds the session, i and val
RECURSIVE GetLoop(_, _)
GetLoop(st, bits) ==
  IF ~(st.i < bits) THEN st
  ELSE
    LET cs == st.cs
        c1 == IF cs.bit = 256
              THEN [cs EXCEPT !.bit = 1,
                              !.byte = IF cs.src_pos < Len(cs.src)
                                       THEN cs.src[cs.src_pos + 1] ELSE cs.after,
                              !.src_pos = @ + 1]
              ELSE cs
        v1 == IF BitOf(c1.byte, BitIndex(c1.bit)) # 0
              THEN st.val + Pow2(st.i) ELSE st.val
    IN GetLoop([cs |-> [c1 EXCEPT !.bit = @ * 2], i |-> st.i + 1, val |-> v1], bits)
getval(cs, bits) == GetLoop([cs |-> cs, i |-> 0, val |-> 0], bits)
\* memset(&cs, 0, sizeof(cs)); cs.src = src; cs.bit = 0x100; cs.src_pos = 0
ReadSession(src, after) == [src |-> src, after |-> after, byte |-> 0, bit |-> 256, src_pos |-> 0]
\* bl = 1; while (!getval(1)) bl += 2
RECURSIVE GetPrefix(_, _)
GetPrefix(cs, bl) ==
  LET r == getval(cs, 1)
  IN IF r.val = 0 THEN GetPrefix(r.cs, bl + 2) ELSE [cs |-> r.cs, bl |-> bl]

\* the span lengths tried: both ends of the range of every prefix length,
\* up to the one span of a 256 x 256 image of one colour
Lengths ==
  (1 .. 12) \cup {31, 32, 33, 34, 127, 128, 129, 130, 511, 512, 513, 514, 2047, 2048, 2049,
                  2050, 8191, 8192, 8193, 8194, 32767, 32768, 32769, 32770, 40000, 65534,
                  65535, 65536}

InitSpan ==
  /\ sBuffer = AllBytes(0)
  /\ pre = sBuffer
  /\ x = 0 /\ y = 0
  /\ bitmap = "NULL"
  /\ frame = 0
  /\ mask = "mZero"
  /\ mask_frame = 0
  /\ last = 0
  /\ calls = 0
  /\ written = None
  /\ brd = None
  /\ mrd = None
  /\ op = "none"
  /\ past \in {0, 255}
  /\ stream = <<>>
  /\ colorArg = WHITE
  /\ fetched = 0
  /\ \E l \in Lengths : span = [NoSpan EXCEPT !.L = l]
  /\ probe = NoProbe
  /\ PaceStart

\* cabi: putsplen(rlen - 1), as compress_rle calls it, then the padding
PutSpanLength ==
  LET cs == putsplen(Session(<<>>, 0, 0, past), span.L - 1)
  IN /\ op = "none"
     /\ stream' = PadLoop(cs).out
     /\ span' = [span EXCEPT !.put = (cs.out_pos * 8) + BitIndex(cs.bit)]
     /\ op' = "putsplen"
     /\ UNCHANGED <<sBuffer, pre, x, y, bitmap, frame, mask, mask_frame, last, calls,
                    written, brd, mrd, past, colorArg, fetched, probe, paceVars>>

\* drawCompressed: bitLength = 1; while (cs.readBits(1) == 0) bitLength += 2;
\* uint16_t len = cs.readBits(bitLength) + 1
ReadSpanLength ==
  LET pre1 == PrefixLoop(BitStreamReader(stream, past), 1)
      r == readBits(pre1.bs, pre1.bitLength)
  IN /\ op # "none"
     /\ span' = [span EXCEPT
                   !.len = U16(r.result + 1),
                   !.used = BitsRead(r.bs)]
     /\ op' = "readBits"
     /\ UNCHANGED <<sBuffer, pre, x, y, bitmap, frame, mask, mask_frame, last, calls,
                    written, brd, mrd, past, stream, colorArg, fetched, probe, paceVars>>

\* cabi: bl = 1; while (!getval(1)) bl += 2; len = getval(bl) + 1
GetSpanLength ==
  LET pre1 == GetPrefix(ReadSession(stream, past), 1)
      r == getval(pre1.cs, pre1.bl)
  IN /\ op # "none"
     /\ span' = [span EXCEPT
                   !.len = r.val + 1,
                   !.used = (r.cs.src_pos * 8) - (8 - BitIndex(r.cs.bit))]
     /\ op' = "getval"
     /\ UNCHANGED <<sBuffer, pre, x, y, bitmap, frame, mask, mask_frame, last, calls,
                    written, brd, mrd, past, stream, colorArg, fetched, probe, paceVars>>

NextSpan ==
  \/ PutSpanLength
  \/ ReadSpanLength
  \/ GetSpanLength

SpecSpan == InitSpan /\ [][NextSpan]_vars

\* ------------------------------------------------------------------------
\* Arduboy2Base::drawPixel, and a sketch that fills the screen and draws one
\* pixel, on the screen or off it, in any color, any number of times.
\* ------------------------------------------------------------------------
\* a variant of OutOfRange whose test of the right edge is off by one
OutOfRangeRightLate(px, py) == px < 0 \/ px > WIDTH \/ py < 0 \/ py > HEIGHT - 1
\* if (x < 0 || x > (WIDTH-1) || y < 0 || y > (HEIGHT-1)) return
OutOfRange(px, py) == px < 0 \/ px > WIDTH - 1 \/ py < 0 \/ py > HEIGHT - 1
\* a variant of PixelBit that counts the rows of a page from its high bit
PixelBitFromTop(py) == Pow2(7 - (U16(py) % 8))
\* the assembly: bit = 1 << (y & 7); row_offset = (y & 0xF8) * (WIDTH / 8),
\* an 8 x 8 bit product, with (uint8_t)x added to its low byte, no carry
PixelBit(py) == Pow2(U16(py) % 8)
RowOffset(px, py) ==
  (256 * HiByte(And8(LoByte(py), 248) * (WIDTH \div 8)))
  + U8(LoByte(And8(LoByte(py), 248) * (WIDTH \div 8)) + LoByte(px))
\* data = sBuffer[row_offset] | bit; if (!(color & _BV(0))) data ^= bit
PixelData(old, bit, color) ==
  IF color % 2 = 0 THEN Xor8(Or8(old, bit), bit) ELSE Or8(old, bit)
drawPixel(buf, px, py, color) ==
  IF OutOfRange(px, py) THEN [buf |-> buf, wr |-> None]
  ELSE Store([buf |-> buf, wr |-> None], RowOffset(px, py),
             PixelData(ByteAt(buf, RowOffset(px, py)), PixelBit(py), color))

\* getPixel(x, y) on buffer buf: row = y / 8; bit_position = y % 8; the byte
\* sBuffer[(row*WIDTH) + x], masked and shifted.  An index past the array
\* reads the RAM that follows it, which holds the byte beyond.
getPixel(buf, gx, gy, beyond) ==
  LET row == U8(gy \div 8)
      bit_position == U8(gy % 8)
      index == (row * WIDTH) + gx
      byte == IF index \in BufIdx THEN ByteAt(buf, index) ELSE beyond
  IN [x |-> gx, y |-> gy, index |-> index,
      value |-> And8(byte, Pow2(bit_position)) \div Pow2(bit_position)]

\* the points drawn: the corners of the screen, points inside it, points
\* one step outside each edge and corner, and the ends of the int16_t range
Points ==
  { <<0, 0>>, <<127, 0>>, <<0, 63>>, <<127, 63>>, <<5, 9>>, <<64, 31>>, <<100, 60>>,
    <<-1, 0>>, <<128, 0>>, <<0, -1>>, <<0, 64>>, <<128, 63>>, <<127, 64>>, <<-1, -1>>,
    <<128, 64>>, <<256, 0>>, <<0, 256>>, <<-128, 3>>, <<5, -64>>, <<383, 71>>,
    <<-32768, 5>>, <<32767, 5>>, <<5, -32768>>, <<5, 32767>> }

InitPixel ==
  /\ sBuffer = AllBytes(0)
  /\ pre = sBuffer
  /\ \E p \in Points : x = p[1] /\ y = p[2]
  /\ bitmap = "NULL"
  /\ frame = 0
  /\ mask = "mZero"
  /\ mask_frame = 0
  /\ last = 0
  /\ calls = 0
  /\ written = None
  /\ brd = None
  /\ mrd = None
  /\ op = "none"
  /\ past = 0
  /\ stream = <<>>
  /\ colorArg = WHITE
  /\ fetched = 0
  /\ span = NoSpan
  /\ probe = NoProbe
  /\ PaceStart

\* the sketch: drawPixel(x, y, c)
DrawPixel ==
  \E c \in {BLACK, WHITE, INVERT} :
    /\ sBuffer' = drawPixel(sBuffer, x, y, c).buf
    /\ pre' = sBuffer
    /\ written' = drawPixel(sBuffer, x, y, c).wr
    /\ colorArg' = c
    /\ op' = "drawPixel"
    /\ UNCHANGED <<x, y, bitmap, frame, mask, mask_frame, last, calls, brd, mrd, past,
                   stream, fetched, span, probe, paceVars>>

\* the sketch: getPixel(x, y), the arguments converted to uint8_t
GetPixel ==
  \E beyond \in {0, 255} :
    /\ probe' = getPixel(sBuffer, U8(x), U8(y), beyond)
    /\ op' = "getPixel"
    /\ UNCHANGED <<sBuffer, pre, x, y, bitmap, frame, mask, mask_frame, last, calls, written,
                   brd, mrd, past, stream, colorArg, fetched, span, paceVars>>

NextPixel ==
  \/ DrawPixel
  \/ GetPixel
  \/ FillScreen

SpecPixel == InitPixel /\ [][NextPixel]_vars

\* ------------------------------------------------------------------------
\* Arduboy2Base::drawBitmap, next to Sprites::drawSelfMasked and
\* Sprites::drawErase of the same image
\* ------------------------------------------------------------------------
\* yOffset = abs(y) % 8; sRow = y / 8; if (y < 0) { sRow--; yOffset = 8 -
\* yOffset; }
BitmapAlign(py) ==
  [sRow |-> IF py < 0 THEN CDiv(py, 8) - 1 ELSE CDiv(py, 8),
   yOffset |-> IF py < 0 THEN 8 - CMod(Abs(py), 8) ELSE CMod(Abs(py), 8)]
\* sBuffer[i] |= v for WHITE, &= ~v for BLACK, ^= v for any other color
Paint(color, data, v) ==
  IF color = WHITE THEN Or8(data, U8(v))
  ELSE IF color = BLACK THEN And8(data, Not8(v))
  ELSE Xor8(data, U8(v))
\* a variant of BitmapRowOnScreen that leaves out the row partly above the screen
BitmapRowOnScreenFromTop(bRow) == bRow > -1
\* if (bRow > -2): the row has a page on the screen
BitmapRowOnScreen(bRow) == bRow > -2
\* the body of the column loop for a column on the screen: the store to page
\* bRow and the store to the page below it
BitmapStep(st, g) ==
  LET byte == pgm_read_byte(PtrAdd(g.bitmap, (st.a * g.w) + st.iCol))
      bRow == g.sRow + st.a
      i1 == (bRow * WIDTH) + g.x + st.iCol
      i2 == ((bRow + 1) * WIDTH) + g.x + st.iCol
      s1 == IF bRow >= 0
            THEN Store(st, i1, Paint(g.color, Load(st, i1), byte * Pow2(g.yOffset)))
            ELSE st
  IN IF g.yOffset # 0 /\ bRow < (HEIGHT \div 8) - 1 /\ bRow > -2
     THEN Store(s1, i2, Paint(g.color, Load(s1, i2), byte \div Pow2(8 - g.yOffset)))
     ELSE s1
\* iCol < w, and not the break: if (iCol + x > WIDTH - 1) break
BitmapColGuard(st, g) == st.iCol < g.w /\ st.iCol + g.x <= WIDTH - 1
\* one pass of the column loop: if (iCol + x >= 0) ..., then iCol++
BitmapCol(st, g) ==
  [(IF st.iCol + g.x >= 0 THEN BitmapStep(st, g) ELSE st) EXCEPT !.iCol = @ + 1]
\* for (iCol = 0; iCol < w; iCol++): the passes its guard allows, at most n
\* of them, halved as in ColLoop
RECURSIVE BitmapColLoop(_, _, _)
BitmapColRest(half, g, n) == IF BitmapColGuard(half, g) THEN BitmapColLoop(half, g, n) ELSE half
BitmapColLoop(st, g, n) ==
  IF n <= 1 THEN (IF BitmapColGuard(st, g) THEN BitmapCol(st, g) ELSE st)
  ELSE BitmapColRest(BitmapColLoop(st, g, n \div 2), g, n - (n \div 2))
\* a < rows, and not the break: if (bRow > (HEIGHT/8) - 1) break
BitmapRowGuard(st, g) == st.a < g.rows /\ g.sRow + st.a <= (HEIGHT \div 8) - 1
\* one pass of the row loop: if (bRow > -2) the column loop, then a++
BitmapRow(st, g) ==
  [(IF BitmapRowOnScreen(g.sRow + st.a)
    THEN BitmapColLoop([st EXCEPT !.iCol = 0], g, g.w) ELSE st) EXCEPT !.a = @ + 1]
\* for (a = 0; a < rows; a++): the passes its guard allows, at most n of them
RECURSIVE BitmapRowLoop(_, _, _)
BitmapRowRest(half, g, n) == IF BitmapRowGuard(half, g) THEN BitmapRowLoop(half, g, n) ELSE half
BitmapRowLoop(st, g, n) ==
  IF n <= 1 THEN (IF BitmapRowGuard(st, g) THEN BitmapRow(st, g) ELSE st)
  ELSE BitmapRowRest(BitmapRowLoop(st, g, n \div 2), g, n - (n \div 2))
\* Arduboy2Base::drawBitmap(x, y, bitmap, w, h, color) on buffer buf
baseDrawBitmap(buf, px, py, bm, w, h, color) ==
  IF OffScreen(px, py, w, h) THEN [buf |-> buf, wr |-> None, a |-> 0, iCol |-> 0]
  ELSE BitmapRowLoop([buf |-> buf, wr |-> None, a |-> 0, iCol |-> 0],
                     [x |-> px, bitmap |-> bm, w |-> w, color |-> color, rows |-> Rows(h),
                      sRow |-> BitmapAlign(py).sRow, yOffset |-> BitmapAlign(py).yOffset],
                     Rows(h))

\* image and position of the sketches that have an image
BitmapSketches == {s[1] : s \in {t \in Sketches : t[1].bitmap # "NULL"}}
InitBitmap ==
  /\ sBuffer = AllBytes(0)
  /\ pre = sBuffer
  /\ \E s \in BitmapSketches : x = s.x /\ y = s.y /\ bitmap = s.bitmap
  /\ frame = 0
  /\ mask = "mZero"
  /\ mask_frame = 0
  /\ last = 0
  /\ calls = 0
  /\ written = None
  /\ brd = None
  /\ mrd = None
  /\ op = "none"
  /\ past = 0
  /\ stream = <<>>
  /\ colorArg = WHITE
  /\ fetched = 0
  /\ span = NoSpan
  /\ probe = NoProbe
  /\ PaceStart

\* the sketch: drawBitmap(x, y, data, w, h, color), data the bytes of the
\* image after its two header bytes
DrawBitmap ==
  \E color \in {BLACK, WHITE, INVERT} :
    LET r == baseDrawBitmap(sBuffer, x, y, PtrAdd(Ptr(bitmap), 2),
                            Rom[bitmap][0], Rom[bitmap][1], color)
    IN /\ calls < MaxCalls
       /\ calls' = calls + 1
       /\ sBuffer' = r.buf
       /\ pre' = sBuffer
       /\ written' = r.wr
       /\ colorArg' = color
       /\ last' = 0
       /\ brd' = None
       /\ mrd' = None
       /\ op' = "drawBitmap"
       /\ UNCHANGED <<x, y, bitmap, frame, mask, mask_frame, past, stream, fetched, span,
                      probe, paceVars>>

NextBitmap ==
  \/ DrawBitmap
  \/ DrawSelfMasked
  \/ DrawErase
  \/ FillScreen

SpecBitmap == InitBitmap /\ [][NextBitmap]_vars

\* ------------------------------------------------------------------------
\* Frame management: setFrameRate, setFrameDuration and nextFrame, called by
\* a sketch while the millisecond clock of the core runs.
\* ------------------------------------------------------------------------
\* the clock value up to which the model follows a sketch
MaxMillis == 300
\* the number of nextFrame calls up to which the model follows a sketch
MaxFrameCalls == 8
\* a variant of Branch that does not look at justRendered
BranchOnTimeOnly(rendered, frameDurationMs, each) ==
  IF frameDurationMs < each THEN "wait" ELSE "render"
\* the path nextFrame takes: if (justRendered) ... else if (frameDurationMs <
\* eachFrameMillis) ... and the pre-render part after them
Branch(rendered, frameDurationMs, each) ==
  IF rendered THEN "rendered"
  ELSE IF frameDurationMs < each THEN "wait" ELSE "render"
\* uint8_t now = (uint8_t) millis(); uint8_t frameDurationMs = now - thisFrameStart
FrameDuration(clock, start) == U8(U8(clock) - start)

InitPace ==
  /\ sBuffer = AllBytes(0)
  /\ pre = sBuffer
  /\ x = 0 /\ y = 0
  /\ bitmap = "NULL"
  /\ frame = 0
  /\ mask = "mZero"
  /\ mask_frame = 0
  /\ last = 0
  /\ calls = 0
  /\ written = None
  /\ brd = None
  /\ mrd = None
  /\ op = "none"
  /\ past = 0
  /\ stream = <<>>
  /\ colorArg = WHITE
  /\ fetched = 0
  /\ span = NoSpan
  /\ probe = NoProbe
  /\ frameCount \in {0, 65535}
  /\ eachFrameMillis = 16
  /\ thisFrameStart = 0
  /\ lastFrameDurationMs = 0
  /\ justRendered = FALSE
  /\ millis = 0
  /\ returned = "none"

\* the timer interrupt: the clock moves on
Tick ==
  \E d \in {16, 120} :
    /\ millis + d <= MaxMillis
    /\ millis' = millis + d
    /\ op' = "millis"
    /\ UNCHANGED <<sBuffer, pre, x, y, bitmap, frame, mask, mask_frame, last, calls, written,
                   brd, mrd, past, stream, colorArg, fetched, span, probe, frameCount,
                   eachFrameMillis, thisFrameStart, lastFrameDurationMs, justRendered,
                   returned>>

\* setup(): setFrameRate(rate): eachFrameMillis = 1000 / rate
SetFrameRate ==
  \E rate \in {30, 255} :
    /\ returned = "none"
    /\ eachFrameMillis' = U8(1000 \div rate)
    /\ op' = "setFrameRate"
    /\ UNCHANGED <<sBuffer, pre, x, y, bitmap, frame, mask, mask_frame, last, calls, written,
                   brd, mrd, past, stream, colorArg, fetched, span, probe, frameCount,
                   thisFrameStart, lastFrameDurationMs, justRendered, millis, returned>>

\* setup(): setFrameDuration(duration): eachFrameMillis = duration
SetFrameDuration ==
  \E duration \in {0, 200} :
    /\ returned = "none"
    /\ eachFrameMillis' = duration
    /\ op' = "setFrameDuration"
    /\ UNCHANGED <<sBuffer, pre, x, y, bitmap, frame, mask, mask_frame, last, calls, written,
                   brd, mrd, past, stream, colorArg, fetched, span, probe, frameCount,
                   thisFrameStart, lastFrameDurationMs, justRendered, millis, returned>>

\* loop(): nextFrame()
NextFrame ==
  /\ calls < MaxFrameCalls
  /\ calls' = calls + 1
  /\ op' = "nextFrame"
  /\ IF Branch(justRendered, FrameDuration(millis, thisFrameStart), eachFrameMillis)
          = "rendered"
     THEN /\ lastFrameDurationMs' = FrameDuration(millis, thisFrameStart)
          /\ justRendered' = FALSE
          /\ returned' = "false"
          /\ UNCHANGED <<thisFrameStart, frameCount>>
     ELSE IF Branch(justRendered, FrameDuration(millis, thisFrameStart), eachFrameMillis)
               = "render"
     THEN /\ justRendered' = TRUE
          /\ thisFrameStart' = U8(millis)
          /\ frameCount' = U16(frameCount + 1)
          /\ returned' = "true"
          /\ UNCHANGED lastFrameDurationMs
     ELSE /\ returned' = "false"
          /\ UNCHANGED <<thisFrameStart, frameCount, lastFrameDurationMs, justRendered>>
  /\ UNCHANGED <<sBuffer, pre, x, y, bitmap, frame, mask, mask_frame, last, written,
                 brd, mrd, past, stream, colorArg, fetched, span, probe, eachFrameMillis,
                 millis>>

NextPace ==
  \/ Tick
  \/ SetFrameRate
  \/ SetFrameDuration
  \/ NextFrame

SpecPace == InitPace /\ [][NextPace]_vars

\* ------------------------------------------------------------------------
\* Pixels: what the properties are stated in
\* ------------------------------------------------------------------------
Zero == AllBytes(0)
\* the pixel (px, py) of a frame buffer: bit py % 8 of byte (py / 8) * WIDTH + px
Pixel(buf, px, py) == BitOf(ByteAt(buf, (py \div 8) * WIDTH + px), py % 8)
\* declared size of the sketch's image and the bytes of one frame of it
SpriteW == IF bitmap = "NULL" THEN 0 ELSE Rom[bitmap][0]
SpriteH == IF bitmap = "NULL" THEN 0 ELSE Rom[bitmap][1]
FrameBytes == SpriteW * (SpriteH \div 8)
\* pixel (col, row) of the frame that starts at offset base of array res
ArrayPixel(res, base, col, row) ==
  BitOf(Rom[res][base + (row \div 8) * SpriteW + col], row % 8)
ImagePixel(col, row) == ArrayPixel(bitmap, 2 + frame * FrameBytes, col, row)
MaskPixel(col, row) == ArrayPixel(mask, mask_frame * FrameBytes, col, row)
\* the on-screen pixels inside the sprite's rectangle
Max(a, b) == IF a > b THEN a ELSE b
Min(a, b) == IF a < b THEN a ELSE b
Covered ==
  { <<px, py>> \in (Max(x, 0) .. Min(x + SpriteW - 1, WIDTH - 1))
                   \X (Max(y, 0) .. Min(y + SpriteH - 1, HEIGHT - 1)) : TRUE }
DrawModes ==
  {SPRITE_MASKED, SPRITE_OVERWRITE, SPRITE_PLUS_MASK, SPRITE_IS_MASK, SPRITE_IS_MASK_ERASE}

PicturePixel(col, row) ==
  BitOf(Pictures[bitmap].src[(row \div 8) * Pictures[bitmap].w + col + 1], row % 8)

\* C2: every sBuffer index a drawCompressed call stores to, for any stream
\* and at any position, lies in [0, WIDTH*HEIGHT/8).
DecodeWritesInBuffer ==
  (op = "drawCompressed" /\ written.n > 0) => (written.lo >= 0 /\ written.hi < BufSize)
\* a decoded image crossing the right and the bottom edge at a y that is not
\* page-aligned stored to the last byte of the buffer
DecodeWritesAtEdge ==
  /\ op = "drawCompressed"
  /\ bitmap = "white8"
  /\ x = 126 /\ y = 61
  /\ written.n > 0
  /\ written.hi = BufSize - 1

OverwriteExact ==
  last = SPRITE_OVERWRITE =>
    \A p \in Covered : Pixel(sBuffer, p[1], p[2]) = ImagePixel(p[1] - x, p[2] - y)
\* an overwrite at a negative, non-page-aligned y, clipped on the left, that
\* cleared a lit pixel and lit a dark one
OverwriteClipped ==
  /\ last = SPRITE_OVERWRITE
  /\ y < 0 /\ y % 8 # 0 /\ x < 0
  /\ \E p \in Covered : Pixel(pre, p[1], p[2]) = 1 /\ Pixel(sBuffer, p[1], p[2]) = 0
  /\ \E p \in Covered : Pixel(pre, p[1], p[2]) = 0 /\ Pixel(sBuffer, p[1], p[2]) = 1

\* C5: after drawExternalMask a covered pixel under a mask bit 1 equals the
\* image bit, and one under a mask bit 0 keeps its value.
MaskedRule ==
  last = SPRITE_MASKED =>
    \A p \in Covered :
      Pixel(sBuffer, p[1], p[2]) =
        IF MaskPixel(p[1] - x, p[2] - y) = 1
        THEN ImagePixel(p[1] - x, p[2] - y)
        ELSE Pixel(pre, p[1], p[2])

\* C6: after drawSelfMasked a covered pixel is lit where the frame bit is 1
\* and keeps its value elsewhere.
SelfMaskedRule ==
  last = SPRITE_IS_MASK =>
    \A p \in Covered :
      Pixel(sBuffer, p[1], p[2]) =
        IF ImagePixel(p[1] - x, p[2] - y) = 1 THEN 1 ELSE Pixel(pre, p[1], p[2])
\* a self-masked draw straddling pages that lit a dark pixel and left a lit
\* one, under a 0 bit, lit
SelfMaskedStraddle ==
  /\ last = SPRITE_IS_MASK
  /\ y % 8 # 0
  /\ \E p \in Covered : Pixel(pre, p[1], p[2]) = 0 /\ Pixel(sBuffer, p[1], p[2]) = 1
  /\ \E p \in Covered : ImagePixel(p[1] - x, p[2] - y) = 0 /\ Pixel(sBuffer, p[1], p[2]) = 1

\* C7: after drawErase a covered pixel is cleared where the frame bit is 1
\* and keeps its value elsewhere.
EraseRule ==
  last = SPRITE_IS_MASK_ERASE =>
    \A p \in Covered :
      Pixel(sBuffer, p[1], p[2]) =
        IF ImagePixel(p[1] - x, p[2] - y) = 1 THEN 0 ELSE Pixel(pre, p[1], p[2])
\* an erase straddling pages that cleared a lit pixel and kept another lit
EraseStraddle ==
  /\ last = SPRITE_IS_MASK_ERASE
  /\ y % 8 # 0
  /\ \E p \in Covered : Pixel(pre, p[1], p[2]) = 1 /\ Pixel(sBuffer, p[1], p[2]) = 0
  /\ \E p \in Covered : ImagePixel(p[1] - x, p[2] - y) = 0 /\ Pixel(sBuffer, p[1], p[2]) = 1

\* C10: drawExternalMask with an all-zero mask leaves the whole frame buffer
\* unchanged.
ZeroMaskIdentity ==
  (last = SPRITE_MASKED /\ mask = "mZero") => sBuffer = pre

\* C8: drawPlusMask leaves the frame buffer drawExternalMask leaves when given
\* the interleaved array's even data bytes as image and its odd ones as mask.
PlusMaskAsMasked ==
  last = SPRITE_PLUS_MASK =>
    sBuffer = draw(pre, x, y, Ptr(EvenName[bitmap]), frame,
                   Ptr(OddName[bitmap]), frame, SPRITE_MASKED).buf

\* C9: a call in the mode and with the arguments of the call before it
\* leaves the frame buffer as that call left it.
BlitIdempotent ==
  [][(last # 0 /\ last' = last) => sBuffer' = sBuffer]_vars
\* a second overwrite, on the result of a first overwrite that cleared
\* pixels of a screen filled white
OverwriteTwice ==
  /\ calls = 2
  /\ last = SPRITE_OVERWRITE
  /\ pre = draw(fillScreen(WHITE), x, y, Ptr(bitmap), frame, NULL, 0, SPRITE_OVERWRITE).buf
  /\ pre # fillScreen(WHITE)
  /\ sBuffer = pre
  /\ written.n > 0

\* C11: drawExternalMask with a mask whose bytes are all 0xFF leaves the
\* frame buffer drawOverwrite of the same image at the same position leaves.
MaskedOnesAsOverwrite ==
  (last = SPRITE_MASKED /\ mask = "mOnes") =>
    sBuffer = draw(pre, x, y, Ptr(bitmap), frame, NULL, 0, SPRITE_OVERWRITE).buf
\* a masked draw under the all-one mask, straddling pages, that cleared
\* pixels of a buffer that was not cleared
MaskedOnesCleared ==
  /\ last = SPRITE_MASKED
  /\ mask = "mOnes"
  /\ y % 8 # 0
  /\ mrd.n > 0
  /\ \E p \in Covered : Pixel(pre, p[1], p[2]) = 1 /\ Pixel(sBuffer, p[1], p[2]) = 0

\* the pixels of the screen
Screen == (0 .. (WIDTH - 1)) \X (0 .. (HEIGHT - 1))
\* C12: drawSelfMasked followed by drawErase of the same bitmap at the same
\* position leaves every covered pixel under a lit bitmap pixel cleared and
\* every other pixel of the screen as it was before the drawSelfMasked.
EraseAfterSelfMasked ==
  [][(last = SPRITE_IS_MASK /\ last' = SPRITE_IS_MASK_ERASE) =>
       \A p \in Screen :
         Pixel(sBuffer', p[1], p[2]) =
           IF p \in Covered /\ ImagePixel(p[1] - x, p[2] - y) = 1
           THEN 0 ELSE Pixel(pre, p[1], p[2])]_vars
\* drawSelfMasked on a cleared buffer lit pixels on two pages, and the
\* drawErase after it left the buffer cleared again
EraseRestoredCleared ==
  /\ last = SPRITE_IS_MASK_ERASE
  /\ calls = 2
  /\ y % 8 # 0
  /\ pre = draw(Zero, x, y, Ptr(bitmap), frame, NULL, 0, SPRITE_IS_MASK).buf
  /\ pre # Zero
  /\ written.n > 0
  /\ sBuffer = Zero

\* the sprite's rectangle [x, x + width) x [y, y + height) and the screen
\* have no pixel in common
Outside == x + SpriteW <= 0 \/ x >= WIDTH \/ y + SpriteH <= 0 \/ y >= HEIGHT
\* C13: in every mode, a call whose rectangle does not intersect the screen
\* stores nothing and leaves the frame buffer unchanged.
RejectedWritesNothing ==
  (last \in DrawModes /\ Outside) => (written.n = 0 /\ sBuffer = pre)
\* a PlusMask call below the screen, on a screen filled white, stored nothing
RejectedBelow ==
  /\ last = SPRITE_PLUS_MASK
  /\ y = HEIGHT
  /\ written.n = 0
  /\ sBuffer = fillScreen(WHITE)

\* C14: a Sprites call with a null bitmap pointer, in any mode, at any
\* position and frame, reads no byte of an array and leaves the frame
\* buffer unchanged.
NullDrawsNothing ==
  (last \in DrawModes /\ bitmap = "NULL") =>
    (sBuffer = pre /\ written.n = 0 /\ brd.n = 0 /\ mrd.n = 0)
\* drawExternalMask with a null bitmap, a mask and frames above 0, on a
\* screen filled white
NullOnWhite ==
  /\ last = SPRITE_MASKED
  /\ bitmap = "NULL"
  /\ frame = 1 /\ mask = "mOnes"
  /\ sBuffer = fillScreen(WHITE)
  /\ brd.n = 0

\* C15: for every span length L from 1 to 2^16, the bits putsplen(L - 1)
\* wrote are read back as L, and the read uses exactly the bits written, by
\* the span-length read of drawCompressed and by the one of cabi.
SpanLengthReadBack ==
  op \in {"readBits", "getval"} => (span.len = span.L /\ span.used = span.put)

\* bit k of the printed array, from the low end of each byte
StreamBit(k) == BitOf(stream[(k \div 8) + 1], k % 8)
\* the bits from to from + n - 1 as a number, the first one lowest
RECURSIVE StreamField(_, _)
StreamField(from, n) ==
  IF n = 0 THEN 0 ELSE StreamBit(from) + 2 * StreamField(from + 1, n - 1)
\* C16: the array printed for the 8 x 8 image that is all white holds the
\* fields 7, 7 and first colour 1, then one span: three 0 bits, a 1 bit and
\* 63 in 7 bits from the low end, then only 0 bits up to the end of the byte;
\* drawn in WHITE on a cleared buffer where it fits the screen, it lights
\* the 8 x 8 pixels of its rectangle and no other.
White8Scenario ==
  (bitmap = "white8" /\ stream # <<>>) =>
    /\ Len(stream) = 4
    /\ StreamField(0, 8) = 7 /\ StreamField(8, 8) = 7 /\ StreamBit(16) = 1
    /\ <<StreamBit(17), StreamBit(18), StreamBit(19), StreamBit(20)>> = <<0, 0, 0, 1>>
    /\ StreamField(21, 7) = 63
    /\ \A k \in 28 .. 31 : StreamBit(k) = 0
    /\ (op = "drawCompressed" /\ colorArg = WHITE /\ pre = Zero
          /\ x >= 0 /\ x + 8 <= WIDTH /\ y >= 0 /\ y + 8 <= HEIGHT) =>
         \A p \in Screen :
           Pixel(sBuffer, p[1], p[2]) =
             IF p[1] - x \in 0 .. 7 /\ p[2] - y \in 0 .. 7 THEN 1 ELSE 0
\* the all-white image encoded, then drawn on the last page of the screen
White8Drawn ==
  /\ bitmap = "white8" /\ op = "drawCompressed" /\ colorArg = WHITE /\ pre = Zero
  /\ stream = <<7, 7, 241, 7>>
  /\ x = 5 /\ y = 56
  /\ ByteAt(sBuffer, (7 * WIDTH) + 5) = 255

\* C17: drawOverwrite of a 1 x 16 image that is all lit, at y = 3 on a
\* cleared buffer, leaves 0b11111000 in the column's byte of page 0 and
\* 0b00000111 in its byte of page 1.
StraddleScenario ==
  (last = SPRITE_OVERWRITE /\ bitmap = "bar" /\ y = 3 /\ pre = Zero) =>
    (ByteAt(sBuffer, x) = 248 /\ ByteAt(sBuffer, WIDTH + x) = 7)
\* C17, amended: it leaves 0b11111000 in the column's byte of page 0,
\* 0b11111111 in its byte of page 1 and 0b00000111 in its byte of page 2.
StraddleThreePages ==
  (last = SPRITE_OVERWRITE /\ bitmap = "bar" /\ y = 3 /\ pre = Zero) =>
    /\ ByteAt(sBuffer, x) = 248
    /\ ByteAt(sBuffer, WIDTH + x) = 255
    /\ ByteAt(sBuffer, (2 * WIDTH) + x) = 7
\* the column drawn at y = 3 on the cleared buffer
StraddleDrawn ==
  /\ last = SPRITE_OVERWRITE /\ bitmap = "bar" /\ x = 0 /\ y = 3 /\ pre = Zero
  /\ written.n = 4
  /\ ByteAt(sBuffer, WIDTH) = 255

\* the on-screen pixels inside the rectangle of the decoded image
CoveredByPicture ==
  {p \in Screen : p[1] - x \in 0 .. (Pictures[bitmap].w - 1)
                  /\ p[2] - y \in 0 .. (Pictures[bitmap].h - 1)}
BitsWritten ==
  (Encoded(Pictures[bitmap].src, Pictures[bitmap].w, Pictures[bitmap].h, past).out_pos * 8)
  + BitIndex(Encoded(Pictures[bitmap].src, Pictures[bitmap].w, Pictures[bitmap].h, past).bit)
PixelOffScreenKeeps ==
  (op = "drawPixel" /\ (x < 0 \/ x > WIDTH - 1 \/ y < 0 \/ y > HEIGHT - 1)) =>
    (sBuffer = pre /\ written.n = 0)
\* a pixel one column right of the screen's last row, drawn in BLACK on a
\* white screen
PixelRightOfWhite ==
  /\ op = "drawPixel" /\ x = WIDTH /\ y = HEIGHT - 1 /\ colorArg = BLACK
  /\ sBuffer = fillScreen(WHITE)

\* C21: drawPixel at a point of the screen, in BLACK or WHITE, changes no
\* bit of the frame buffer but bit y % 8 of byte (y / 8) * WIDTH + x, and
\* getPixel at the same point then returns the color.
PixelSetThenGet ==
  (op = "drawPixel" /\ ~(x < 0 \/ x > WIDTH - 1 \/ y < 0 \/ y > HEIGHT - 1)
     /\ colorArg \in {BLACK, WHITE}) =>
    /\ \A i \in BufIdx : \A k \in 0 .. 7 :
         (i # ((y \div 8) * WIDTH) + x \/ k # y % 8) =>
           BitOf(ByteAt(sBuffer, i), k) = BitOf(ByteAt(pre, i), k)
    /\ getPixel(sBuffer, x, y, 0).value = colorArg
\* the last pixel of the screen cleared on a white screen
LastPixelCleared ==
  /\ op = "drawPixel" /\ x = WIDTH - 1 /\ y = HEIGHT - 1 /\ colorArg = BLACK
  /\ pre = fillScreen(WHITE)
  /\ ByteAt(sBuffer, BufSize - 1) = 127

\* C22: getPixel, for any pair of uint8_t arguments, reads a byte of sBuffer
\* whose index lies in [0, WIDTH*HEIGHT/8).
GetPixelInBuffer == op = "getPixel" => probe.index \in BufIdx

\* C23: a nextFrame call that returns true adds 1 to frameCount, wrapping to
\* 0 past 65535, and one that returns false leaves it; a call returns true
\* only when the nextFrame call before it did not return true and the
\* elapsed time (now - thisFrameStart) mod 256 is at least eachFrameMillis.
FramePacing ==
  [][op' = "nextFrame" =>
       /\ returned' = "true" =>
            /\ frameCount' = (frameCount + 1) % 65536
            /\ returned # "true"
            /\ ((millis % 256) - thisFrameStart) % 256 >= eachFrameMillis
       /\ returned' = "false" => frameCount' = frameCount]_vars
\* frameCount wrapped to 0 at a frame rendered after the 8-bit clock wrapped
FrameCountWrapped ==
  /\ returned = "true" /\ frameCount = 0 /\ justRendered
  /\ millis > 256 /\ thisFrameStart < 44

\* the session compress_rle sets up for the image
PictureSession ==
  Session(Pictures[bitmap].src, Pictures[bitmap].w, Pictures[bitmap].h, past)
\* the scan positions of the image
Positions == 0 .. ((Pictures[bitmap].w * Pictures[bitmap].h) - 1)
\* C24: in compress_rle the pixel at scan position pos is the image pixel at
\* row pos / width and column pos % width, and the first colour written is
\* the one at position 0.
ScanRowMajor ==
  (op = "compress_rle" /\ bitmap \in DOMAIN Pictures) =>
    /\ \A pos \in Positions :
         getcol(PictureSession, pos)
           = PicturePixel(pos % Pictures[bitmap].w, pos \div Pictures[bitmap].w)
    /\ StreamBit(16) = getcol(PictureSession, 0)
\* C24, amended: the pixel at scan position pos is the image pixel at column
\* (pos / 8) % width and row ((pos / 8) / width) * 8 + pos % 8: the scan
\* goes down the 8 rows of a column of a page, then to the next column of the
\* page, then to the next page.
ScanDisplayOrder ==
  (op = "compress_rle" /\ bitmap \in DOMAIN Pictures) =>
    /\ \A pos \in Positions :
         getcol(PictureSession, pos)
           = PicturePixel((pos \div 8) % Pictures[bitmap].w,
                          (((pos \div 8) \div Pictures[bitmap].w) * 8) + (pos % 8))
    /\ StreamBit(16) = getcol(PictureSession, 0)
\* the 3 x 16 image encoded: a scan position whose pixel is not the one
\* row-major order puts there
ScannedShape ==
  /\ op = "compress_rle" /\ bitmap = "shape" /\ stream # <<>>
  /\ \E pos \in Positions :
       getcol(PictureSession, pos)
         # PicturePixel(pos % Pictures[bitmap].w, pos \div Pictures[bitmap].w)

\* the number of 0 bits of the printed array from bit k up to the next 1 bit
RECURSIVE ZeroBits(_)
ZeroBits(k) ==
  IF k < Len(stream) * 8 /\ StreamBit(k) = 0 THEN 1 + ZeroBits(k + 1) ELSE 0
\* the length of the span the printed array holds at bit k: z 0 bits, a 1
\* bit, then length - 1 in 2z + 1 bits
SpanAt(k) == StreamField(k + ZeroBits(k) + 1, (2 * ZeroBits(k)) + 1) + 1
\* the bit after the span at bit k
AfterSpan(k) == k + (3 * ZeroBits(k)) + 2
\* the number of spans the printed array holds from bit k up to the padding
RECURSIVE SpanCount(_)
SpanCount(k) == IF k >= BitsWritten THEN 0 ELSE 1 + SpanCount(AfterSpan(k))
\* the spans from bit k on are runs of the image from scan position pos on:
\* each at least 1 long, of one colour, followed by the other colour or by
\* the end of the image, the first of colour col, up to the padding at the
\* end of the image
RECURSIVE MaximalRuns(_, _, _)
MaximalRuns(k, pos, col) ==
  IF k >= BitsWritten THEN pos = Pictures[bitmap].w * Pictures[bitmap].h
  ELSE /\ SpanAt(k) >= 1
       /\ \A p \in pos .. (pos + SpanAt(k) - 1) :
            p \in Positions /\ getcol(PictureSession, p) = col
       /\ pos + SpanAt(k) \in Positions => getcol(PictureSession, pos + SpanAt(k)) # col
       /\ MaximalRuns(AfterSpan(k), pos + SpanAt(k), 1 - col)
\* C25: the run lengths compress_rle emits are each >= 1, each run is
\* maximal, the colours alternate from the colour of pixel 0 written in the
\* header, the lengths sum to width * height, and after the last span the
\* array is padded with 0 bits to a whole number of bytes.
EncoderSpans ==
  (op = "compress_rle" /\ bitmap \in DOMAIN Pictures) =>
    /\ StreamBit(16) = getcol(PictureSession, 0)
    /\ MaximalRuns(17, 0, StreamBit(16))
    /\ (Len(stream) * 8) - BitsWritten \in 0 .. 7
    /\ \A k \in BitsWritten .. ((Len(stream) * 8) - 1) : StreamBit(k) = 0
\* the 3 x 16 image encoded: several spans, and padding bits after them
EncodedShapeSpans ==
  /\ op = "compress_rle" /\ bitmap = "shape"
  /\ SpanCount(17) >= 3
  /\ (Len(stream) * 8) - BitsWritten > 0

\* the reads of the last Sprites call after those of the header
DataReads ==
  drawFrame(pre, x, y, Ptr(bitmap), frame,
            IF last = SPRITE_MASKED THEN Ptr(mask) ELSE NULL,
            IF last = SPRITE_MASKED THEN mask_frame ELSE 0, last)
\* the bytes of the image array one frame takes in the mode of the last call
FrameSpan == IF last = SPRITE_PLUS_MASK THEN 2 * FrameBytes ELSE FrameBytes
\* C26: with F = width * (height / 8), a call that draws image frame k reads
\* image bytes only inside [2 + k*F, 2 + (k+1)*F), or inside
\* [2 + 2*k*F, 2 + 2*(k+1)*F) for SPRITE_PLUS_MASK, and reads a separate mask
\* with mask frame m only inside [m*F, (m+1)*F), at every position and with
\* every clipping; the two frame indices are applied independently.
FrameReadBounds ==
  (op = "draw" /\ bitmap # "NULL") =>
    /\ brd = ReadHeader(Ptr(bitmap), DataReads.brd)
    /\ mrd = DataReads.mrd
    /\ DataReads.brd.n > 0 =>
         /\ DataReads.brd.lo >= 2 + (frame * FrameSpan)
         /\ DataReads.brd.hi < 2 + ((frame + 1) * FrameSpan)
    /\ mrd.n > 0 =>
         /\ mrd.lo >= mask_frame * FrameBytes
         /\ mrd.hi < (mask_frame + 1) * FrameBytes
\* image frame 1 drawn with mask frame 0, clipped at the right and at the
\* bottom of the screen
SecondFrameFirstMask ==
  /\ op = "draw" /\ last = SPRITE_MASKED /\ frame = 1 /\ mask_frame = 0
  /\ x = 126 /\ y = 61 /\ mrd.n > 0 /\ brd.n > 2
  /\ mrd.hi < brd.lo + FrameBytes

\* the last call was a drawCompressed that its off-screen test let through
DecodedOnScreen ==
  /\ op = "drawCompressed"
  /\ ~OffScreenCompressed(x, y, stream[1] + 1, stream[2] + 1)
\* C27: for every destY not rejected, the blit path and the decode path
\* compute a pair (startPage, yOffset) with 0 <= yOffset < 8 and
\* startPage * 8 + yOffset = destY, and correct the pair only when destY is
\* negative and destY mod 8 is not 0.
NormalizedOffset ==
  DecodedOnScreen =>
    /\ SpriteAlign(y).yOffset \in 0 .. 7
    /\ (SpriteAlign(y).sRow * 8) + SpriteAlign(y).yOffset = y
    /\ SpriteAlign(y).corrected <=> (y < 0 /\ y % 8 # 0)
    /\ CompressedAlign(y).yOffset \in 0 .. 7
    /\ (CompressedAlign(y).startRow * 8) + CompressedAlign(y).yOffset = y
    /\ CompressedAlign(y).corrected <=> (y < 0 /\ y % 8 # 0)
\* C27, amended: in both paths startPage * 8 + yOffset = destY; the blit
\* path has 0 <= yOffset < 8 and corrects the pair only when destY is
\* negative and destY mod 8 is not 0; the decode path corrects it whenever
\* destY is negative, so that its yOffset is in 1 .. 8 for a negative destY
\* (8 where destY is a multiple of 8) and in 0 .. 7 otherwise.
OffsetOfEachPath ==
  DecodedOnScreen =>
    /\ SpriteAlign(y).yOffset \in 0 .. 7
    /\ (SpriteAlign(y).sRow * 8) + SpriteAlign(y).yOffset = y
    /\ SpriteAlign(y).corrected <=> (y < 0 /\ y % 8 # 0)
    /\ CompressedAlign(y).yOffset \in (IF y < 0 THEN 1 .. 8 ELSE 0 .. 7)
    /\ (CompressedAlign(y).yOffset = 8) <=> (y < 0 /\ y % 8 = 0)
    /\ (CompressedAlign(y).startRow * 8) + CompressedAlign(y).yOffset = y
    /\ CompressedAlign(y).corrected <=> y < 0
\* an image decoded one page above the top of the screen: the decode path
\* has yOffset 8 on page -2, the blit path yOffset 0 on page -1
DecodedPageAbove ==
  /\ DecodedOnScreen /\ y = -8
  /\ CompressedAlign(y) = [startRow |-> -2, yOffset |-> 8, corrected |-> TRUE]
  /\ SpriteAlign(y) = [sRow |-> -1, yOffset |-> 0, corrected |-> FALSE]

\* pixel (px, py) of the screen lies in the sprite's rectangle
InRectangle(px, py) == px - x \in 0 .. (SpriteW - 1) /\ py - y \in 0 .. (SpriteH - 1)
\* C28: in every mode, at every position and for every frame, Sprites::draw
\* leaves every pixel of the screen outside the rectangle
\* [x, x + width) x [y, y + height) as it was: the bits of a straddled page
\* byte above the sprite's top row and below its bottom row keep their
\* values, in Overwrite mode too.
OutsideRectangleKept ==
  (op = "draw" /\ last \in DrawModes) =>
    \A i \in BufIdx :
      ByteAt(sBuffer, i) # ByteAt(pre, i) =>
        \A k \in 0 .. 7 :
          BitOf(ByteAt(sBuffer, i), k) # BitOf(ByteAt(pre, i), k) =>
            InRectangle(i % WIDTH, ((i \div WIDTH) * 8) + k)
\* drawOverwrite at y = 3 on a screen filled white: the three rows above the
\* sprite and the rows below it are still lit, and the sprite cleared pixels
OverwriteKeptAbove ==
  /\ op = "draw" /\ last = SPRITE_OVERWRITE /\ x = 0 /\ y = 3
  /\ pre = fillScreen(WHITE)
  /\ \A row \in (0 .. 2) \cup ((3 + SpriteH) .. (3 + SpriteH + 4)) : Pixel(sBuffer, 0, row) = 1
  /\ \E p \in Covered : Pixel(sBuffer, p[1], p[2]) = 0

\* C29: for every image of size w x h (h a multiple of 8), every starting
\* frame buffer and every position, negative y that is a multiple of 8
\* included, Arduboy2Base::drawBitmap(x, y, data, w, h, WHITE) leaves the
\* frame buffer Sprites::drawSelfMasked of the resource [w, h, data...]
\* leaves, and drawBitmap with BLACK the one Sprites::drawErase leaves.
BlittersAgree ==
  (op = "drawBitmap" /\ colorArg \in {BLACK, WHITE}) =>
    sBuffer = draw(pre, x, y, Ptr(bitmap), 0, NULL, 0,
                   IF colorArg = WHITE THEN SPRITE_IS_MASK ELSE SPRITE_IS_MASK_ERASE).buf
\* drawBitmap in BLACK one page above the top of a white screen cleared
\* pixels of page 0
BitmapErasedPageAbove ==
  /\ op = "drawBitmap" /\ colorArg = BLACK /\ y = -8
  /\ pre = fillScreen(WHITE)
  /\ written.n > 0
  /\ \E i \in 0 .. (WIDTH - 1) : ByteAt(sBuffer, i) # 255

\* C30: during compress_rle of a width x height image getcol is evaluated
\* only at scan positions below width * height, so that no source byte at
\* index width * height / 8 or above is read.
EncoderReadsInside ==
  (op = "compress_rle" /\ bitmap \in DOMAIN Pictures) =>
    brd.hi < (Pictures[bitmap].w * Pictures[bitmap].h) \div 8
====
